---- MODULE Spec2Model ----
(***************************************************************************)
(* Vidzaro AI services: the face tracker of the morph service              *)
(* (assign_track_ids_embedding and the inline tracker of _do_swap) and the *)
(* job store / background workers of the morph, deblur and wan services.   *)
(*                                                                         *)
(* Numbers.  Python floats are modelled in fixed point with four decimals  *)
(* (SCALE units = 1.0).  A quotient x / (y + eps) of the source, eps being *)
(* 1e-6 or 1e-8, is the floor of the real value: for x > 0 it is           *)
(* (x * SCALE - 1) \div y, one unit below an exact quotient, so that       *)
(* iou_box(a, a) and the cosine of a vector with itself stay below 1.0 as  *)
(* they do in the source.  Float rounding below 1e-4 is not modelled.      *)
(***************************************************************************)
EXTENDS Integers, Sequences, FiniteSets, TLC

VARIABLES
    \* ---- tracking session (morph-service) ----
    session,                \* which tracker runs, on which inputs: "assign" | "swap" |
                            \* "ties" | "drift" | "quality" | "zero" | "boxes" | "off"
    quality_mode,           \* req.quality_mode: "fast" | "balanced" | "best"
    next_id,                \* assign_track_ids_embedding: next_id
    track_embeddings,       \* dict trackId -> list of embeddings
    track_bbox,             \* dict trackId -> last bbox
    track_quality_scores,   \* dict trackId -> quality score
    frames_in,              \* the frames handed to the tracker so far
    out,                    \* out: one list of annotated detections per frame
    allocated,              \* history: ids given to new tracks, in order
    seeded,                 \* _do_swap: ids seeded with the target embedding
    rerun,                  \* what a second call of assign_track_ids_embedding on
                            \* frames_in returned, NoRerun before that call
    \* ---- job store and background workers (one service process) ----
    service,                \* "morph" | "deblur" | "wan" | "off": the process modelled
    _jobs,                  \* _jobs: job id -> record
    handlers,               \* submit handlers between their write and their return
    workers,                \* the background tasks, in the order of add_task
    dirs,                   \* the temporary directories that exist, by worker
    response,               \* the HTTP response sent by the step just taken
    writers,                \* history: job id -> the workers that wrote under it
    \* ---- calls of the pure functions of the morph service ----
    feather,                \* a call of soften_swap_edges: its arguments and its result
    iou_call,               \* a call of iou_box: its arguments and its result
    \* ---- the threads of the wan service around _jobs_lock ----
    _jobs_lock,             \* the thread that holds _jobs_lock, "free" if none
    threads,                \* where the handler, the worker and the poller are
    \* ---- the frame loop of _do_swap: which detection is swapped ----
    target_track_id,        \* req.target_face_track_id
    applied,                \* history: per frame read, the boxes swapper.get was
                            \* called for and the file written for the frame
    \* ---- the cached models of the morph service ----
    _prefer_cpu_override,   \* "None", "cpu" (True) or "cuda" (False)
    cached,                 \* _face_app, _face_app_hd, _swapper: FALSE for None
    loads,                  \* history: per model, the loads since the preference
                            \* last changed
    callers                 \* the threads that run detect_faces or _do_swap

trackVars == <<session, quality_mode, next_id,
               track_embeddings, track_bbox, track_quality_scores,
               frames_in, out, allocated, seeded, rerun>>

jobVars == <<service, _jobs, handlers, workers, dirs, response, writers>>

pureVars == <<feather, iou_call>>

lockVars == <<_jobs_lock, threads>>

swapVars == <<target_track_id, applied>>

cacheVars == <<_prefer_cpu_override, cached, loads, callers>>

vars == <<trackVars, jobVars, pureVars, lockVars, swapVars, cacheVars>>

-----------------------------------------------------------------------------
\* Bounds of the model
MaxFrames == 2      \* frames per tracking session
MaxDets   == 2      \* detections per frame
MaxRead   == 5      \* frames a video source delivers at most
MaxProbeFrames == 3 \* frames per tracking session on the tie / drift / quality inputs

\* Fixed point: SCALE units are 1.0; UNIT is the length of a normalized vector
SCALE == 100 * 100
UNIT  == 10 * 10

None  == <<>>        \* Python None, where a list or a vector is expected
NoKey == <<>>        \* the dict has no such key
NoMatch == [found |-> FALSE, id |-> 0, score |-> 0]
NoRerun == <<>>      \* assign_track_ids_embedding has not been called a second time

Max(a, b) == IF a >= b THEN a ELSE b
Min(a, b) == IF a <= b THEN a ELSE b

RECURSIVE SeqSum(_)
SeqSum(s) == IF s = <<>> THEN 0 ELSE Head(s) + SeqSum(Tail(s))

RECURSIVE SeqMax(_)
SeqMax(s) == IF Len(s) = 1 THEN s[1] ELSE Max(Head(s), SeqMax(Tail(s)))

\* ---- Python dicts: insertion-ordered sequences of [k, v] ----
DictKeys(d) == {d[i].k : i \in 1..Len(d)}
DictHas(d, k) == k \in DictKeys(d)
DictIdx(d, k) == CHOOSE i \in 1..Len(d) : d[i].k = k
DictGet(d, k) == d[DictIdx(d, k)].v
DictGetOr(d, k, dflt) == IF DictHas(d, k) THEN DictGet(d, k) ELSE dflt
DictSet(d, k, v) ==
    IF DictHas(d, k) THEN [d EXCEPT ![DictIdx(d, k)].v = v]
    ELSE Append(d, [k |-> k, v |-> v])

-----------------------------------------------------------------------------
\* ---- morph-service: geometry and embeddings ----

QUALITY_THRESHOLD == (6 * SCALE) \div 10
MAX_EMBEDDINGS_PER_TRACK == 8

\* (bbox[2] - bbox[0]) * (bbox[3] - bbox[1]); TLA+ tuples are 1-based
BoxArea(b) == (b[3] - b[1]) * (b[4] - b[2])

\* x / (y + eps) for x >= 0, y > 0
DivEps(x, y) == IF x > 0 THEN (x * SCALE - 1) \div y ELSE (x * SCALE) \div y

\* (bug variant: the intersection is counted twice in the union)
iou_box_double_counted(a, b) ==
    LET ix1 == Max(a[1], b[1])
        iy1 == Max(a[2], b[2])
        ix2 == Min(a[3], b[3])
        iy2 == Min(a[4], b[4])
    IN  IF ix2 <= ix1 \/ iy2 <= iy1 THEN 0
        ELSE DivEps((ix2 - ix1) * (iy2 - iy1), BoxArea(a) + BoxArea(b))

iou_box(a, b) ==
    LET ix1 == Max(a[1], b[1])
        iy1 == Max(a[2], b[2])
        ix2 == Min(a[3], b[3])
        iy2 == Min(a[4], b[4])
        inter == (ix2 - ix1) * (iy2 - iy1)
        area_a == BoxArea(a)
        area_b == BoxArea(b)
    IN  IF ix2 <= ix1 \/ iy2 <= iy1 THEN 0
        ELSE DivEps(inter, area_a + area_b - inter)

Dot(a, b) == a[1] * b[1] + a[2] * b[2]

\* the integer square root of n, searched between lo and hi
RECURSIVE ISqrt(_, _, _)
ISqrt(n, lo, hi) ==
    IF lo >= hi THEN lo
    ELSE IF ((lo + hi + 1) \div 2) * ((lo + hi + 1) \div 2) <= n
         THEN ISqrt(n, (lo + hi + 1) \div 2, hi)
         ELSE ISqrt(n, lo, (lo + hi + 1) \div 2 - 1)

\* np.linalg.norm; the vectors used have exact norms
Norm(a) == ISqrt(Dot(a, a), 0, 2 * UNIT)

\* emb / norm, in units of 1/UNIT; a vector of norm < 1e-8 is returned as it is
Scaled(emb, norm) ==
    IF norm = 0 THEN emb ELSE <<(emb[1] * UNIT) \div norm, (emb[2] * UNIT) \div norm>>

normalize_face_embedding(embedding) ==
    IF embedding = None THEN None ELSE Scaled(embedding, Norm(embedding))

\* dot(a, b) / (na * nb + 1e-8), 0.0 when a norm is below 1e-8
CosineOf(a, b, na, nb) == IF na = 0 \/ nb = 0 THEN 0 ELSE DivEps(Dot(a, b), na * nb)

_cosine_sim(a, b) == CosineOf(a, b, Norm(a), Norm(b))

-----------------------------------------------------------------------------
\* ---- sorted(..., reverse=True): descending by key, stable ----

\* k1 > k2 on Python tuples (lexicographic)
KeyGreater(k1, k2) ==
    \E i \in 1..Len(k1) : k1[i] > k2[i] /\ \A j \in 1..(i - 1) : k1[j] = k2[j]

\* index i goes behind every index already placed whose key is >= keys[i]
InsertAt(r, i, p) == SubSeq(r, 1, p) \o <<i>> \o SubSeq(r, p + 1, Len(r))

InsertDesc(r, i, keys) ==
    InsertAt(r, i, Cardinality({j \in 1..Len(r) : ~KeyGreater(keys[i], keys[r[j]])}))

RECURSIVE SortIdx(_, _)
SortIdx(n, keys) == IF n = 0 THEN <<>> ELSE InsertDesc(SortIdx(n - 1, keys), n, keys)

Permute(s, idx) == [i \in 1..Len(s) |-> s[idx[i]]]

sorted_reverse(s, keys) == Permute(s, SortIdx(Len(s), keys))

-----------------------------------------------------------------------------
\* ---- assign_track_ids_embedding ----

NOVELTY_SIM == (9 * SCALE) \div 10      \* _cosine_sim(emb, existing_emb) > 0.9
IOU_THRESH  == (4 * SCALE) \div 10      \* best_iou = 0.4, and iou > 0.4 in _do_swap

\* the key of sorted(frame_dets, ...): (has embedding, quality_score, face area);
\* d.get("bbox", [0,0,0,0]) gives area 0 when the key is missing
AssignSortKey(d) ==
    <<IF d.embedding # None THEN 1 ELSE 0,
      d.quality_score,
      IF d.bbox = NoKey THEN 0 ELSE BoxArea(d.bbox)>>

\* (bug variant: the id is not recorded as used)
MarkUsedForgets(used, best_id) == used

\* used_ids_in_this_frame.add(best_id)
MarkUsed(used, best_id) == used \cup {best_id}

\* (bug variant: a detection without an embedding is skipped as well)
SkipDetNoEmbedding(det) == det.bbox = NoKey \/ det.embedding = None

\* if not bbox or len(bbox) != 4: continue
SkipDet(det) == det.bbox = NoKey

\* (bug variant: an equal score replaces the best match)
BetterOrEqual(best, tid, score) ==
    IF score >= best.score THEN [found |-> TRUE, id |-> tid, score |-> score] ELSE best

\* if score > best_score: best_score = score; best_id = tid
Better(best, tid, score) ==
    IF score > best.score THEN [found |-> TRUE, id |-> tid, score |-> score] ELSE best

\* 0.7 * max_sim + 0.3 * avg_sim + quality_bonus, of the similarities to one track
FinalScore(similarities, quality_bonus) ==
    IF Len(similarities) = 0 THEN quality_bonus
    ELSE (7 * SeqMax(similarities)
          + 3 * (SeqSum(similarities) \div Len(similarities))) \div 10 + quality_bonus

\* for tid, emb_list in track_embeddings.items(): ... if final_score > best_score
RECURSIVE EmbLoop(_, _, _, _, _, _)
EmbLoop(i, emb, te, tq, used, best) ==
    IF i > Len(te) THEN best
    ELSE IF te[i].k \in used THEN EmbLoop(i + 1, emb, te, tq, used, best)
    ELSE EmbLoop(i + 1, emb, te, tq, used,
                 Better(best, te[i].k,
                        FinalScore([j \in 1..Len(te[i].v) |-> _cosine_sim(emb, te[i].v[j])],
                                   DictGetOr(tq, te[i].k, 0) \div 10)))

\* iou * (0.5 + 0.5 * size_ratio)
CombinedScore(iou, curr_area, prev_area) ==
    (iou * ((5 * SCALE) \div 10
            + DivEps(Min(curr_area, prev_area), Max(curr_area, prev_area)) \div 2)) \div SCALE

\* for tid, prev_bbox in track_bbox.items(): ... if combined_score > best_iou
RECURSIVE IouLoop(_, _, _, _, _)
IouLoop(i, bbox, tb, used, best) ==
    IF i > Len(tb) THEN best
    ELSE IF tb[i].k \in used THEN IouLoop(i + 1, bbox, tb, used, best)
    ELSE IouLoop(i + 1, bbox, tb, used,
                 Better(best, tb[i].k,
                        CombinedScore(iou_box(bbox, tb[i].v), BoxArea(bbox), BoxArea(tb[i].v))))

\* (bug variant: no IoU fallback)
IouFallbackNever(st, bbox, m1) == m1

\* lines 593-640: the embedding match, then the IoU fallback
IouFallback(st, bbox, m1) ==
    IF ~m1.found /\ Len(st.tb) > 0
    THEN IouLoop(1, bbox, st.tb, st.used, [NoMatch EXCEPT !.score = IOU_THRESH])
    ELSE m1

FindTrack(st, bbox, emb, thresh) ==
    IouFallback(st, bbox,
                IF emb # None
                THEN EmbLoop(1, emb, st.te, st.tq, st.used, [NoMatch EXCEPT !.score = thresh])
                ELSE NoMatch)

\* lines 650-662: the embedding joins the gallery if it is new enough
GalleryWith(cur, emb) ==
    IF (\A j \in 1..Len(cur) : ~(_cosine_sim(emb, cur[j]) > NOVELTY_SIM))
       /\ Len(cur) < MAX_EMBEDDINGS_PER_TRACK
    THEN Append(cur, emb) ELSE cur

GalleryAdd(te, best_id, emb) == DictSet(te, best_id, GalleryWith(DictGetOr(te, best_id, <<>>), emb))

\* (bug variant: the track takes the quality of its latest detection)
QualityAfterLatest(tq0, best_id, emb, quality_score) ==
    IF emb = None THEN tq0 ELSE DictSet(tq0, best_id, quality_score)

\* lines 645, 664-669: track_quality_scores after the detection
QualityAfter(tq0, best_id, emb, quality_score) ==
    IF emb = None THEN tq0
    ELSE IF DictHas(tq0, best_id)
         THEN DictSet(tq0, best_id, (8 * DictGet(tq0, best_id) + 2 * quality_score) \div 10)
         ELSE DictSet(tq0, best_id, quality_score)

\* (bug variant: a new track starts from a quality of 1.0)
NewTrackQualityOne(tq0, best_id) == DictSet(tq0, best_id, SCALE)

\* track_quality_scores[best_id] = 0.0
NewTrackQuality(tq0, best_id) == DictSet(tq0, best_id, 0)

\* lines 642-673, with best_id known
AssignStore(st, det, emb, best_id, fresh) ==
    [next_id   |-> IF fresh THEN st.next_id + 1 ELSE st.next_id,
     te        |-> IF emb # None THEN GalleryAdd(st.te, best_id, emb) ELSE st.te,
     tb        |-> DictSet(st.tb, best_id, det.bbox),
     tq        |-> QualityAfter(IF fresh THEN NewTrackQuality(st.tq, best_id) ELSE st.tq,
                                best_id, emb, det.quality_score),
     used      |-> MarkUsed(st.used, best_id),
     new_frame |-> Append(st.new_frame, [bbox |-> det.bbox, trackId |-> best_id]),
     allocated |-> IF fresh THEN Append(st.allocated, best_id) ELSE st.allocated]

\* if best_id is None: best_id = next_id; next_id += 1
AssignMatched(st, det, emb, m) ==
    AssignStore(st, det, emb, IF m.found THEN m.id ELSE st.next_id, ~m.found)

AssignWithEmb(st, det, emb, thresh) ==
    AssignMatched(st, det, emb, FindTrack(st, det.bbox, emb, thresh))

\* one pass of "for det in sorted_dets"; st holds the locals of the function
AssignDet(st, det, thresh) ==
    IF SkipDet(det) THEN st
    ELSE AssignWithEmb(st, det, normalize_face_embedding(det.embedding), thresh)

RECURSIVE AssignDets(_, _, _, _)
AssignDets(st, dets, i, thresh) ==
    IF i > Len(dets) THEN st
    ELSE AssignDets(AssignDet(st, dets[i], thresh), dets, i + 1, thresh)

\* one pass of "for frame_dets in detections_per_frame"
AssignFrame(st, frame_dets, thresh) ==
    AssignDets([st EXCEPT !.used = {}, !.new_frame = <<>>],
               sorted_reverse(frame_dets,
                              [i \in 1..Len(frame_dets) |-> AssignSortKey(frame_dets[i])]),
               1, thresh)

\* (bug variant: the latest embedding represents the track)
BestEmbLatest(embs) == embs[Len(embs)]

\* best_emb = embs[0]
BestEmb(embs) == embs[1]

\* lines 677-685: the first embedding of every track that has one
RECURSIVE repr_embeddings(_)
repr_embeddings(te) ==
    IF te = <<>> THEN <<>>
    ELSE IF Len(Head(te).v) > 0
         THEN <<[k |-> Head(te).k, v |-> BestEmb(Head(te).v)]>> \o repr_embeddings(Tail(te))
         ELSE repr_embeddings(Tail(te))

\* (bug variant: the tracker state outlives the call)
AssignLocalsKept(prev) == prev

\* lines 569-574: every call starts from its own fresh locals
AssignLocals(prev) ==
    [next_id |-> 0, te |-> <<>>, tb |-> <<>>, tq |-> <<>>, used |-> {},
     new_frame |-> <<>>, allocated |-> <<>>]

\* lines 576-685: the loop over detections_per_frame from frame i on, and the return
RECURSIVE AssignRun(_, _, _, _)
\* out.append(new_frame) after frame i
AssignRunOn(st, detections_per_frame, i, o) ==
    AssignRun(st, detections_per_frame, i + 1, Append(o, st.new_frame))

AssignRun(st, detections_per_frame, i, o) ==
    IF i > Len(detections_per_frame)
    THEN [out |-> o, repr_embeddings |-> repr_embeddings(st.te)]
    ELSE AssignRunOn(AssignFrame(st, detections_per_frame[i], QUALITY_THRESHOLD),
                     detections_per_frame, i, o)

-----------------------------------------------------------------------------
\* ---- the inline tracker of _do_swap ----

QualityModes == {"fast", "balanced", "best"}

\* SIM_THRESH by quality mode (lines 947-955)
SIM_THRESH(mode) ==
    IF mode = "best" THEN (65 * SCALE) \div 100
    ELSE IF mode = "fast" THEN (45 * SCALE) \div 100
    ELSE QUALITY_THRESHOLD

\* min_face_area by quality mode (lines 958-966)
MinFaceArea(mode) ==
    IF mode = "best" THEN 80 * 80 ELSE IF mode = "fast" THEN 48 * 48 ELSE 60 * 60

\* min_det_score by quality mode (lines 958-966)
MinDetScore(mode) ==
    IF mode = "best" THEN (35 * SCALE) \div 100
    ELSE IF mode = "fast" THEN (25 * SCALE) \div 100
    ELSE (30 * SCALE) \div 100

\* np.log10(max(face_area, 1)), floored to four decimals, for the areas used
Log10(area) ==
    CASE area = 100 * 100 -> 4 * SCALE
      [] area = 70 * 70   -> 36901
      [] area = 250 * 400 -> 5 * SCALE
      [] OTHER            -> 0

\* the body of "for f in faces": the detections that pass the filter
FaceToDet(f) ==
    [bbox          |-> f.bbox,
     embedding     |-> normalize_face_embedding(f.embedding),
     quality_score |-> (f.det_score * (SCALE + Log10(Max(BoxArea(f.bbox), 1)) \div 10))
                        \div SCALE]

FaceKept(f, mode) ==
    ~(BoxArea(f.bbox) < MinFaceArea(mode) \/ f.det_score < MinDetScore(mode))

RECURSIVE BuildFrameDets(_, _)
BuildFrameDets(faces, mode) ==
    IF faces = <<>> THEN <<>>
    ELSE IF FaceKept(Head(faces), mode)
         THEN <<FaceToDet(Head(faces))>> \o BuildFrameDets(Tail(faces), mode)
         ELSE BuildFrameDets(Tail(faces), mode)

\* the key of sorted(frame_dets, ...) in _do_swap: (has embedding, quality_score)
SwapSortKey(d) == <<IF d.embedding # None THEN 1 ELSE 0, d.quality_score>>

\* for tid, embs in track_embeddings.items(): ... if combined_sim > best_score
RECURSIVE SwapEmbLoop(_, _, _, _, _)
SwapEmbLoop(i, emb, te, used, best) ==
    IF i > Len(te) THEN best
    ELSE IF te[i].k \in used \/ Len(te[i].v) = 0 THEN SwapEmbLoop(i + 1, emb, te, used, best)
    ELSE SwapEmbLoop(i + 1, emb, te, used,
                     Better(best, te[i].k,
                            FinalScore([j \in 1..Len(te[i].v) |-> _cosine_sim(emb, te[i].v[j])],
                                       0)))

\* for tid, last_box in track_bbox.items(): if iou > 0.4: best_id = tid; break
RECURSIVE SwapIouLoop(_, _, _, _)
SwapIouLoop(i, bbox, tb, used) ==
    IF i > Len(tb) THEN NoMatch
    ELSE IF tb[i].k \notin used /\ iou_box(bbox, tb[i].v) > IOU_THRESH
         THEN [found |-> TRUE, id |-> tb[i].k, score |-> 0]
    ELSE SwapIouLoop(i + 1, bbox, tb, used)

SwapIouFallback(st, bbox, m1) ==
    IF ~m1.found /\ Len(st.tb) > 0 THEN SwapIouLoop(1, bbox, st.tb, st.used) ELSE m1

SwapFindTrack(st, bbox, emb, thresh) ==
    SwapIouFallback(st, bbox,
                    IF emb # None
                    THEN SwapEmbLoop(1, emb, st.te, st.used, [NoMatch EXCEPT !.score = thresh])
                    ELSE NoMatch)

SetMax(S) == CHOOSE m \in S : \A x \in S : x <= m

\* (bug variant: the number of known tracks is taken as the new id)
SwapNewIdByCount(te, tb) == Cardinality(DictKeys(te) \cup DictKeys(tb))

\* max(list(track_embeddings.keys()) + list(track_bbox.keys()) + [-1]) + 1
SwapNewId(te, tb) == SetMax(DictKeys(te) \cup DictKeys(tb) \cup {-1}) + 1

\* (bug variant: the gallery grows without a cap)
SwapGalleryWithUncapped(cur, emb) == Append(cur, emb)

\* if len(track_embeddings[best_id]) < 8: track_embeddings[best_id].append(emb)
SwapGalleryWith(cur, emb) == IF Len(cur) < 8 THEN Append(cur, emb) ELSE cur

\* lines 1069-1077, with best_id known
SwapStore(st, det, best_id, fresh) ==
    [st EXCEPT
       !.te = IF det.embedding # None
              THEN DictSet(st.te, best_id,
                           SwapGalleryWith(DictGetOr(st.te, best_id, <<>>), det.embedding))
              ELSE st.te,
       !.tb = DictSet(st.tb, best_id, det.bbox),
       !.used = st.used \cup {best_id},
       !.new_frame = Append(st.new_frame, [bbox |-> det.bbox, trackId |-> best_id]),
       !.allocated = IF fresh THEN Append(st.allocated, best_id) ELSE st.allocated]

SwapMatched(st, det, m) ==
    SwapStore(st, det, IF m.found THEN m.id ELSE SwapNewId(st.te, st.tb), ~m.found)

\* one pass of "for det in sorted(frame_dets, ...)" (lines 1034-1077)
SwapDet(st, det, thresh) ==
    SwapMatched(st, det, SwapFindTrack(st, det.bbox, det.embedding, thresh))

RECURSIVE SwapDets(_, _, _, _)
SwapDets(st, dets, i, thresh) ==
    IF i > Len(dets) THEN st
    ELSE SwapDets(SwapDet(st, dets[i], thresh), dets, i + 1, thresh)

\* the tracker part of one pass of the frame loop of _do_swap
SortSwapDets(frame_dets) ==
    sorted_reverse(frame_dets, [i \in 1..Len(frame_dets) |-> SwapSortKey(frame_dets[i])])

SwapFrame(st, faces, mode) ==
    SwapDets([st EXCEPT !.used = {}, !.new_frame = <<>>],
             SortSwapDets(BuildFrameDets(faces, mode)), 1, SIM_THRESH(mode))

-----------------------------------------------------------------------------
\* ---- the job store (_jobs, update_job_progress, get_progress) ----

Services == {"morph", "deblur", "wan"}
JobIds == {"j1"}                 \* job ids a caller supplies as req.job_id
Submits == {"first", "second"}   \* the submit calls made to a service
Uuids  == {"u1", "u2", "u3"}     \* values of str(uuid.uuid4())
NoJobId == ""                    \* req.job_id is None
TotalFrames == {0, 2, 500}       \* values of int(cap.get(cv2.CAP_PROP_FRAME_COUNT))
DEFAULT_DURATION == 5
DEFAULT_NUM_FRAMES == 81
Durations == {3, 5, 8}           \* values of req.duration
DURATION_TO_FRAMES == (3 :> 45) @@ (5 :> 81) @@ (8 :> 129)
NUM_INFERENCE_STEPS == 50

Terminal == {"completed", "error", "failed"}

\* progress values are kept in hundredths, as round(progress, 2) leaves them
Pct(n) == n * 100
\* round(n / d * 100) for the quotients that occur
Round(n, d) == (2 * n + d) \div (2 * d)

NoResult == [kind |-> "None", msg |-> ""]
ErrorResult(msg) == [kind |-> "error", msg |-> msg]          \* {"error": msg}
OutputResult(kind) == [kind |-> kind, msg |-> ""]            \* {"output_path": ..., ...}

\* {"output_path": str(output_path), "num_frames": num_frames}
WanResult(num_frames) == [kind |-> "output", msg |-> "", num_frames |-> num_frames]

NoJob == [progress |-> 0, status |-> "", result |-> NoResult]
NoResponse == [op |-> "none", job_id |-> "", code |-> 0, job |-> NoJob]

\* (bug variant: the stored progress never goes down)
update_job_progress_keeps_progress(js, job_id, progress, status, result) ==
    (job_id :> [progress |-> IF job_id \in DOMAIN js /\ js[job_id].progress > progress
                             THEN js[job_id].progress ELSE progress,
                status |-> status, result |-> result]) @@ js

\* (bug variant: an existing record is updated field by field, status first,
\* and the update of its progress is lost)
update_job_progress_in_place(js, job_id, progress, status, result) ==
    (job_id :> [progress |-> IF job_id \in DOMAIN js THEN js[job_id].progress ELSE progress,
                status |-> status, result |-> result]) @@ js

\* _jobs[job_id] = {"progress": round(progress, 2), "status": status, "result": result}
\* (updated_at, the wall clock of the write, is left out of the record)
update_job_progress(js, job_id, progress, status, result) ==
    (job_id :> [progress |-> progress, status |-> status, result |-> result]) @@ js

\* (bug variant: a lookup that creates the record it does not find)
get_progress_creating(js, job_id) ==
    [store |-> IF job_id \in DOMAIN js THEN js
               ELSE update_job_progress(js, job_id, 0, "queued", NoResult),
     code  |-> 200,
     job   |-> IF job_id \in DOMAIN js THEN js[job_id]
               ELSE [progress |-> 0, status |-> "queued", result |-> NoResult]]

\* job = _jobs.get(job_id); if not job: raise HTTPException(404); return job
get_progress(js, job_id) ==
    [store |-> js,
     code  |-> IF job_id \in DOMAIN js THEN 200 ELSE 404,
     job   |-> IF job_id \in DOMAIN js THEN js[job_id] ELSE NoJob]

\* (bug variant: the handler swallows the exception and writes nothing)
OnExceptionSwallowed(js, job_id, status, msg) == js

\* except Exception as e: update_job_progress(job_id, 0, <status>, {"error": str(e)})
OnException(js, job_id, status, msg) ==
    update_job_progress(js, job_id, 0, status, ErrorResult(msg))

\* (bug variant: the directory is left in place)
rmtree_skipped(ds, d) == ds

\* shutil.rmtree(frames_dir, ignore_errors=True)
rmtree(ds, d) == ds \ {d}

\* (bug variant: a status outside the ones the services use)
InitialStatusPending(svc) == "pending"

\* the status written by the submit handler: swap and enhance write "starting",
\* generate writes "queued"
InitialStatus(svc) == IF svc = "wan" THEN "queued" ELSE "starting"

\* (bug variant: the except clause reports success)
FailStatusCompleted(svc) == "completed"

\* the status of the top-level exception record: _do_swap writes "failed",
\* _do_enhance, _do_ffmpeg_enhance and _run_t2v_inference write "error"
FailStatus(svc) == IF svc = "morph" THEN "failed" ELSE "error"

\* the record the submit handler writes
InitialRecord == [progress |-> 0, status |-> InitialStatus(service), result |-> NoResult]

\* (bug variant: the handler calls the worker function itself, so the worker
\* has run to its end when the handler returns)
NewWorkerRanInline(job_id) ==
    [job_id |-> job_id, pc |-> "done", frame_idx |-> 0, total_frames |-> 0,
     frames_dir |-> FALSE, step |-> 0, gap |-> FALSE,
     duration |-> 0, num_frames |-> 0, pipe_num_frames |-> 0,
     exc |-> "none", ended |-> "completed",
     last |-> Pct(100), nonmono |-> FALSE,
     wrote |-> [progress |-> Pct(100), status |-> "completed", result |-> OutputResult("output")]]

\* the locals of a background task when add_task has queued it
NewWorker(job_id) ==
    [job_id |-> job_id, pc |-> "start", frame_idx |-> 0, total_frames |-> 0,
     frames_dir |-> FALSE, step |-> 0,
     duration |-> 0,        \* _run_t2v_inference: req.duration, 0 until it is read
     num_frames |-> 0,      \* _run_t2v_inference: num_frames, 0 until it is set
     pipe_num_frames |-> 0, \* the num_frames argument of pipe(...), 0 before the call
     gap |-> FALSE,         \* history of _do_swap: the files frame_%08d.png written so
                            \* far are not one per frame read, numbered 0, 1, 2, ...
     wrote |-> InitialRecord, \* history: the record last written for the job by its
                              \* submit handler or by this worker
     exc |-> "none",        \* the exception raised in its last step: none, absorbed, fatal
     ended |-> "none",      \* the terminal status it wrote, if any
     last |-> 0,            \* history: the last progress written for the job
     nonmono |-> FALSE]     \* history: a progress below the previous one was written

JobsOff ==
    /\ service = "off"
    /\ _jobs = <<>>
    /\ handlers = <<>>
    /\ workers = <<>>
    /\ dirs = {}
    /\ response = NoResponse
    /\ writers = [id \in JobIds \cup Uuids |-> {}]

\* no call of soften_swap_edges or iou_box is modelled
NoCall == [done |-> TRUE]

PureOff ==
    /\ feather = NoCall
    /\ iou_call = NoCall

\* the threads of the wan service are not modelled one lock operation at a time
LockOff ==
    /\ _jobs_lock = "free"
    /\ threads = <<>>

\* no frame loop of _do_swap is followed detection by detection
SwapOff ==
    /\ target_track_id = 0
    /\ applied = <<>>

Models == {"face_app", "face_app_hd", "swapper"}

\* no caller of the model getters is modelled
CacheOff ==
    /\ _prefer_cpu_override = "None"
    /\ cached = [m \in Models |-> FALSE]
    /\ loads = [m \in Models |-> 0]
    /\ callers = <<>>

TrackOff ==
    /\ session = "off"
    /\ quality_mode = "balanced"
    /\ next_id = 0
    /\ track_embeddings = <<>>
    /\ track_bbox = <<>>
    /\ track_quality_scores = <<>>
    /\ frames_in = <<>>
    /\ out = <<>>
    /\ allocated = <<>>
    /\ seeded = {}
    /\ rerun = NoRerun

-----------------------------------------------------------------------------
\* ---- the HTTP handlers and the background workers of the three services ----

\* the store after worker i has written, and the history of that write
Step(i, wk, js) ==
    /\ workers' = [workers EXCEPT ![i] = wk]
    /\ _jobs' = js
    /\ writers' = [writers EXCEPT ![workers[i].job_id] = @ \cup {i}]
    /\ response' = NoResponse
    /\ UNCHANGED <<service, handlers, trackVars, pureVars, lockVars, swapVars, cacheVars>>

\* a step of worker i that writes nothing to the store
Quiet(i, wk) ==
    /\ workers' = [workers EXCEPT ![i] = wk]
    /\ response' = NoResponse
    /\ UNCHANGED <<service, handlers, _jobs, writers, trackVars, pureVars, lockVars, swapVars, cacheVars>>

Logged(wk, progress) ==
    [wk EXCEPT !.last = progress, !.nonmono = wk.nonmono \/ progress < wk.last]

Wrote(wk, progress, status, result) ==
    [Logged(wk, progress) EXCEPT
        !.wrote = [progress |-> progress, status |-> status, result |-> result]]

\* update_job_progress(job_id, progress, status, result) called by worker i
Writes(i, wk, progress, status, result) ==
    Step(i, Wrote(wk, progress, status, result),
         update_job_progress(_jobs, workers[i].job_id, progress, status, result))

\* (bug variant: the early return writes no record)
RejectsSilently(i, pc, msg) ==
    Quiet(i, [workers[i] EXCEPT !.pc = pc])

\* worker i returns early after writing an error record itself
Rejects(i, pc, msg) ==
    Writes(i, [workers[i] EXCEPT !.pc = pc, !.ended = FailStatus(service)],
           0, FailStatus(service), ErrorResult(msg))

\* an exception of worker i reaches the except clause of its function
Raises(i, wk, pc, msg) ==
    Step(i, Wrote([wk EXCEPT !.pc = pc, !.exc = "fatal", !.ended = FailStatus(service)],
                  0, FailStatus(service), ErrorResult(msg)),
         OnException(_jobs, workers[i].job_id, FailStatus(service), msg))

\* The endpoints are plain functions, which FastAPI runs on its thread pool
\* next to the background tasks: a handler is two steps, its write and its
\* return, and workers may run in between.
\* job_id = req.job_id or str(uuid.uuid4()); update_job_progress(job_id, 0, <initial>)
SubmitWrite ==
    /\ service \in Services
    /\ Len(handlers) + Len(workers) < Cardinality(Submits)
    /\ \E req_job_id \in JobIds \cup {NoJobId} :
         \E job_id \in {IF req_job_id = NoJobId
                        THEN CHOOSE u \in Uuids : u \notin DOMAIN _jobs
                        ELSE req_job_id} :
            /\ _jobs' = update_job_progress(_jobs, job_id, 0, InitialStatus(service), NoResult)
            /\ handlers' = Append(handlers, job_id)
    /\ response' = NoResponse
    /\ UNCHANGED <<service, workers, dirs, writers, trackVars, pureVars, lockVars, swapVars, cacheVars>>

\* background_tasks.add_task(<worker>, job_id, req); return {"jobId": job_id, "status": "queued"}
SubmitReturn ==
    /\ service \in Services
    /\ \E h \in 1..Len(handlers) :
         /\ workers' = Append(workers, NewWorker(handlers[h]))
         /\ handlers' = SubSeq(handlers, 1, h - 1) \o SubSeq(handlers, h + 1, Len(handlers))
         /\ response' = [op |-> "submit", job_id |-> handlers[h], code |-> 200,
                         job |-> [progress |-> 0, status |-> "queued", result |-> NoResult]]
    /\ UNCHANGED <<service, _jobs, dirs, writers, trackVars, pureVars, lockVars, swapVars, cacheVars>>

\* GET /progress/{job_id}
Poll ==
    /\ service \in Services
    /\ \E job_id \in JobIds \cup {"u1"} :
         \E r \in {get_progress(_jobs, job_id)} :
            /\ _jobs' = r.store
            /\ response' = [op |-> "poll", job_id |-> job_id, code |-> r.code, job |-> r.job]
    /\ UNCHANGED <<service, handlers, workers, dirs, writers, trackVars, pureVars, lockVars, swapVars, cacheVars>>

At(i, svc, pc) == service = svc /\ workers[i].pc = pc

\* ---- _do_swap ----

\* get_face_app_hd() / get_face_app(), get_swapper(), cv2.imread, source face detection
MorphLoad(i) ==
    /\ At(i, "morph", "start")
    /\ UNCHANGED dirs
    /\ \/ Raises(i, workers[i], "finally", "Failed to load model")
       \/ Rejects(i, "finally", "Source image not readable")
       \/ Rejects(i, "finally", "No face in source. Use a clear, front-facing photo.")
       \/ Quiet(i, [workers[i] EXCEPT !.pc = "open"])

\* cv2.VideoCapture, total_frames, frames_dir.mkdir, target embedding, update(0, "processing")
MorphOpen(i) ==
    /\ At(i, "morph", "open")
    /\ dirs' = dirs \cup {i}
    /\ \E total \in TotalFrames :
         \E wk \in {[workers[i] EXCEPT !.total_frames = total, !.frames_dir = TRUE]} :
            \/ Writes(i, [wk EXCEPT !.pc = "loop"], 0, "processing", NoResult)
            \/ Raises(i, wk, "finally", "setup failed")

\* if frame_idx == 0: update_job_progress(job_id, 1, "processing")
FirstFrameWrite(wk, js) ==
    IF wk.frame_idx = 0
    THEN [wk |-> Wrote(wk, Pct(1), "processing", NoResult),
          js |-> update_job_progress(js, wk.job_id, Pct(1), "processing", NoResult)]
    ELSE [wk |-> wk, js |-> js]

\* if frame_idx % 5 == 0: progress = (frame_idx / total_frames) * 95; update(progress)
\* with total_frames = 0 the division raises, the except clause of the frame
\* counts the frame a second time; the file of the frame is written by then
ProgressWrite(f, idx) ==
    IF idx % 5 # 0 THEN [wk |-> [f.wk EXCEPT !.frame_idx = idx, !.exc = "none"], js |-> f.js]
    ELSE IF f.wk.total_frames = 0
         \* (no file will carry the index idx)
         THEN [wk |-> [f.wk EXCEPT !.frame_idx = idx + 1, !.exc = "absorbed", !.gap = TRUE],
               js |-> f.js]
         ELSE [wk |-> Wrote([f.wk EXCEPT !.frame_idx = idx, !.exc = "none"],
                            Round(idx * 95 * 100, f.wk.total_frames),
                            "processing", NoResult),
               js |-> update_job_progress(f.js, f.wk.job_id,
                                          Round(idx * 95 * 100, f.wk.total_frames),
                                          "processing", NoResult)]

\* one iteration of the frame loop: cap.read() returned a frame
MorphFrame(i) ==
    /\ At(i, "morph", "loop")
    /\ workers[i].frame_idx < MaxRead
    /\ UNCHANGED dirs
    /\ \E f \in {FirstFrameWrite(workers[i], _jobs)} :
         \* the frame is processed: cv2.imwrite(frame_<frame_idx>.png); frame_idx += 1
         \/ \E g \in {ProgressWrite(f, f.wk.frame_idx + 1)} : Step(i, g.wk, g.js)
         \* processing the frame raises before cv2.imwrite: except: frame_idx += 1; continue
         \* (the frame read leaves no file)
         \/ Step(i, [f.wk EXCEPT !.frame_idx = @ + 1, !.exc = "absorbed", !.gap = TRUE], f.js)

\* cap.read() returned no frame: break; cap.release(); update(99, "encoding")
MorphReadEnd(i) ==
    /\ At(i, "morph", "loop")
    /\ UNCHANGED dirs
    /\ Writes(i, [workers[i] EXCEPT !.pc = "encode", !.exc = "none"], Pct(99), "encoding", NoResult)

\* subprocess.run(ffmpeg, check=True); update(100, "completed", {...})
MorphEncode(i) ==
    /\ At(i, "morph", "encode")
    /\ UNCHANGED dirs
    /\ \/ Writes(i, [workers[i] EXCEPT !.pc = "finally", !.ended = "completed"],
                 Pct(100), "completed", OutputResult("output"))
       \/ Raises(i, workers[i], "finally", "ffmpeg failed")

\* finally: if frames_dir: shutil.rmtree(frames_dir, ignore_errors=True)
MorphFinally(i) ==
    /\ At(i, "morph", "finally")
    /\ dirs' = IF workers[i].frames_dir THEN rmtree(dirs, i) ELSE dirs
    /\ Quiet(i, [workers[i] EXCEPT !.pc = "done", !.exc = "none"])

\* ---- _do_enhance and _do_ffmpeg_enhance ----

\* update_job_progress(job_id, 0, "starting")
DeblurStart(i) ==
    /\ At(i, "deblur", "start")
    /\ UNCHANGED dirs
    /\ Writes(i, [workers[i] EXCEPT !.pc = "check"], 0, "starting", NoResult)

\* if not video_path.exists(): error, return; update(5, "loading_model")
DeblurCheck(i) ==
    /\ At(i, "deblur", "check")
    /\ UNCHANGED dirs
    /\ \/ Rejects(i, "done", "Video file not found")
       \/ Writes(i, [workers[i] EXCEPT !.pc = "load"], Pct(5), "loading_model", NoResult)

\* model = get_ai_enhancer(), which returns None when the import or the load
\* raises; None hands the job to _do_ffmpeg_enhance, whose first write is
\* update(20, "ffmpeg_processing"); otherwise update(10, "reading_video")
DeblurLoad(i) ==
    /\ At(i, "deblur", "load")
    /\ UNCHANGED dirs
    /\ \/ Writes(i, [workers[i] EXCEPT !.pc = "ffmpeg", !.exc = "absorbed"],
                 Pct(20), "ffmpeg_processing", NoResult)
       \/ Writes(i, [workers[i] EXCEPT !.pc = "open"], Pct(10), "reading_video", NoResult)

\* subprocess.run(ffmpeg unsharp, check=True); update(100, "completed", {...})
DeblurFfmpeg(i) ==
    /\ At(i, "deblur", "ffmpeg")
    /\ UNCHANGED dirs
    /\ \/ Writes(i, [workers[i] EXCEPT !.pc = "done", !.exc = "none", !.ended = "completed"],
                 Pct(100), "completed", OutputResult("ffmpeg_unsharp"))
       \/ Raises(i, workers[i], "done", "ffmpeg failed")

\* cap = cv2.VideoCapture(...); if not cap.isOpened(): error, return
DeblurOpenFails(i) ==
    /\ At(i, "deblur", "open")
    /\ UNCHANGED dirs
    /\ \/ Rejects(i, "done", "Failed to open video")
       \/ Raises(i, workers[i], "done", "cannot create directory")

\* total_frames = ...; frames_dir = mkdtemp(prefix="deblur_"); update(15, "processing_frames")
DeblurOpen(i) ==
    /\ At(i, "deblur", "open")
    /\ dirs' = dirs \cup {i}
    /\ \E total \in TotalFrames :
         Writes(i, [workers[i] EXCEPT !.pc = "loop", !.total_frames = total, !.frames_dir = TRUE],
                Pct(15), "processing_frames", NoResult)

\* one iteration of the frame loop; enhance_frame_with_ai absorbs what the
\* model raises; frame_idx += 1;
\* if frame_idx % 10 == 0 or frame_idx == total_frames:
\*     progress = 15 + int((frame_idx / total_frames) * 75)
DeblurFrame(i) ==
    /\ At(i, "deblur", "loop")
    /\ workers[i].frame_idx < MaxRead
    /\ UNCHANGED dirs
    /\ \E absorbed \in {"none", "absorbed"} :
         \E wk \in {[workers[i] EXCEPT !.frame_idx = @ + 1, !.exc = absorbed]} :
            IF wk.frame_idx % 10 = 0 \/ wk.frame_idx = wk.total_frames
            THEN IF wk.total_frames = 0
                 THEN Raises(i, wk, "done", "division by zero")
                 ELSE Writes(i, wk, Pct(15 + ((wk.frame_idx * 75) \div wk.total_frames)),
                             "processing_frames", OutputResult("frames_processed"))
            ELSE Quiet(i, wk)

\* cap.read() or cv2.imwrite raises inside the loop
DeblurFrameRaises(i) ==
    /\ At(i, "deblur", "loop")
    /\ UNCHANGED dirs
    /\ Raises(i, workers[i], "done", "frame failed")

\* cap.read() returned no frame: break; cap.release(); update(95, "encoding")
DeblurReadEnd(i) ==
    /\ At(i, "deblur", "loop")
    /\ UNCHANGED dirs
    /\ Writes(i, [workers[i] EXCEPT !.pc = "encode", !.exc = "none"], Pct(95), "encoding", NoResult)

\* subprocess.run(ffmpeg, check=True); update(100, "completed", {...}); finally: pass
DeblurEncode(i) ==
    /\ At(i, "deblur", "encode")
    /\ UNCHANGED dirs
    /\ \/ Writes(i, [workers[i] EXCEPT !.pc = "done", !.ended = "completed"],
                 Pct(100), "completed", OutputResult("output"))
       \/ Raises(i, workers[i], "done", "ffmpeg failed")

\* ---- _run_t2v_inference ----

\* DURATION_TO_FRAMES.get(duration, 81)
NumFramesOf(duration) ==
    IF duration \in DOMAIN DURATION_TO_FRAMES
    THEN DURATION_TO_FRAMES[duration] ELSE DEFAULT_NUM_FRAMES

\* update_job_progress(job_id, 0, "starting");
\* num_frames = DURATION_TO_FRAMES.get(req.duration, 81), for a duration among D
WanStartFor(i, D) ==
    /\ At(i, "wan", "start")
    /\ UNCHANGED dirs
    /\ \E duration \in D :
         Writes(i, [workers[i] EXCEPT !.pc = "check", !.duration = duration,
                                      !.num_frames = NumFramesOf(duration)],
                0, "starting", NoResult)

\* a request that leaves duration at its default
WanStart(i) == WanStartFor(i, {DEFAULT_DURATION})

\* if req.mode == "image-to-video": error, return; update(5, "loading_model")
WanCheck(i) ==
    /\ At(i, "wan", "check")
    /\ UNCHANGED dirs
    /\ \/ Rejects(i, "done", "Image-to-Video requires 14B model. Use Text-to-Video for now.")
       \/ Writes(i, [workers[i] EXCEPT !.pc = "load"], Pct(5), "loading_model", NoResult)

\* import torch, diffusers; from_pretrained(...); update(15, "generating")
WanLoad(i) ==
    /\ At(i, "wan", "load")
    /\ UNCHANGED dirs
    \* pipe(..., num_frames=num_frames, ...) is entered
    /\ \/ Writes(i, [workers[i] EXCEPT !.pc = "generate",
                                        !.pipe_num_frames = workers[i].num_frames],
                 Pct(15), "generating", NoResult)
       \/ Raises(i, workers[i], "done", "model load failed")

\* progress_callback(pipe, step_index, ...):
\*     pct = 15 + (step_index + 1) / num_inference_steps * (90 - 15)
progress_callback(i) ==
    /\ At(i, "wan", "generate")
    /\ workers[i].step < NUM_INFERENCE_STEPS
    /\ UNCHANGED dirs
    /\ Writes(i, [workers[i] EXCEPT !.step = @ + 1],
              Pct(15) + Round((workers[i].step + 1) * 75 * 100, NUM_INFERENCE_STEPS),
              "generating", NoResult)

\* pipe(...) raises during the denoising loop
WanPipeRaises(i) ==
    /\ At(i, "wan", "generate")
    /\ UNCHANGED dirs
    /\ Raises(i, workers[i], "done", "generation failed")

\* pipe(...).frames[0]; update(90, "encoding")
WanPipeDone(i) ==
    /\ At(i, "wan", "generate")
    /\ workers[i].step = NUM_INFERENCE_STEPS
    /\ UNCHANGED dirs
    /\ Writes(i, [workers[i] EXCEPT !.pc = "encode"], Pct(90), "encoding", NoResult)

\* export_to_video(...); update(100, "completed", {"output_path", "num_frames"})
WanEncode(i) ==
    /\ At(i, "wan", "encode")
    /\ UNCHANGED dirs
    /\ \/ Writes(i, [workers[i] EXCEPT !.pc = "done", !.ended = "completed"],
                 Pct(100), "completed", WanResult(workers[i].num_frames))
       \/ Raises(i, workers[i], "done", "export failed")

\* ---- the services as a state machine ----

InitJobs ==
    /\ TrackOff
    /\ PureOff
    /\ LockOff
    /\ SwapOff
    /\ CacheOff
    /\ service \in Services
    /\ _jobs = <<>>
    /\ handlers = <<>>
    /\ workers = <<>>
    /\ dirs = {}
    /\ response = NoResponse
    /\ writers = [id \in JobIds \cup Uuids |-> {}]

Running == 1..Len(workers)

NextJobs ==
    \/ SubmitWrite
    \/ SubmitReturn
    \/ Poll
    \/ \E i \in Running : MorphLoad(i)
    \/ \E i \in Running : MorphOpen(i)
    \/ \E i \in Running : MorphFrame(i)
    \/ \E i \in Running : MorphReadEnd(i)
    \/ \E i \in Running : MorphEncode(i)
    \/ \E i \in Running : MorphFinally(i)
    \/ \E i \in Running : DeblurStart(i)
    \/ \E i \in Running : DeblurCheck(i)
    \/ \E i \in Running : DeblurLoad(i)
    \/ \E i \in Running : DeblurFfmpeg(i)
    \/ \E i \in Running : DeblurOpenFails(i)
    \/ \E i \in Running : DeblurOpen(i)
    \/ \E i \in Running : DeblurFrame(i)
    \/ \E i \in Running : DeblurFrameRaises(i)
    \/ \E i \in Running : DeblurReadEnd(i)
    \/ \E i \in Running : DeblurEncode(i)
    \/ \E i \in Running : WanStart(i)
    \/ \E i \in Running : WanCheck(i)
    \/ \E i \in Running : WanLoad(i)
    \/ \E i \in Running : progress_callback(i)
    \/ \E i \in Running : WanPipeRaises(i)
    \/ \E i \in Running : WanPipeDone(i)
    \/ \E i \in Running : WanEncode(i)

SpecJobs == InitJobs /\ [][NextJobs]_vars

\* the steps of the i-th background task
WorkerStep(i) ==
    /\ i \in Running
    /\ \/ MorphLoad(i) \/ MorphOpen(i) \/ MorphFrame(i) \/ MorphReadEnd(i)
       \/ MorphEncode(i) \/ MorphFinally(i)
       \/ DeblurStart(i) \/ DeblurCheck(i) \/ DeblurLoad(i) \/ DeblurFfmpeg(i)
       \/ DeblurOpenFails(i) \/ DeblurOpen(i) \/ DeblurFrame(i) \/ DeblurFrameRaises(i)
       \/ DeblurReadEnd(i) \/ DeblurEncode(i)
       \/ WanStart(i) \/ WanCheck(i) \/ WanLoad(i) \/ progress_callback(i)
       \/ WanPipeRaises(i) \/ WanPipeDone(i) \/ WanEncode(i)

\* the wan service with requests of every duration of the table (and no polls)
NextWan ==
    \/ SubmitWrite
    \/ SubmitReturn
    \/ \E i \in Running : WanStartFor(i, Durations)
    \/ \E i \in Running : WanCheck(i)
    \/ \E i \in Running : WanLoad(i)
    \/ \E i \in Running : progress_callback(i)
    \/ \E i \in Running : WanPipeRaises(i)
    \/ \E i \in Running : WanPipeDone(i)
    \/ \E i \in Running : WanEncode(i)

InitWan ==
    /\ InitJobs
    /\ service = "wan"

SpecWan == InitWan /\ [][NextWan]_vars

\* a client that submits one job to the service
SubmitOnce ==
    /\ handlers = <<>>
    /\ workers = <<>>
    /\ SubmitWrite

NextOneJob ==
    \/ SubmitOnce
    \/ SubmitReturn
    \/ Poll
    \/ \E i \in Running : MorphLoad(i)
    \/ \E i \in Running : MorphOpen(i)
    \/ \E i \in Running : MorphFrame(i)
    \/ \E i \in Running : MorphReadEnd(i)
    \/ \E i \in Running : MorphEncode(i)
    \/ \E i \in Running : MorphFinally(i)
    \/ \E i \in Running : DeblurStart(i)
    \/ \E i \in Running : DeblurCheck(i)
    \/ \E i \in Running : DeblurLoad(i)
    \/ \E i \in Running : DeblurFfmpeg(i)
    \/ \E i \in Running : DeblurOpenFails(i)
    \/ \E i \in Running : DeblurOpen(i)
    \/ \E i \in Running : DeblurFrame(i)
    \/ \E i \in Running : DeblurFrameRaises(i)
    \/ \E i \in Running : DeblurReadEnd(i)
    \/ \E i \in Running : DeblurEncode(i)
    \/ \E i \in Running : WanStart(i)
    \/ \E i \in Running : WanCheck(i)
    \/ \E i \in Running : WanLoad(i)
    \/ \E i \in Running : progress_callback(i)
    \/ \E i \in Running : WanPipeRaises(i)
    \/ \E i \in Running : WanPipeDone(i)
    \/ \E i \in Running : WanEncode(i)

\* One job under fair scheduling.  The thread pool runs every handler and
\* every queued task: a handler that has written returns, and a task that can
\* take a step takes one (each external call returns or raises).
SpecJobsFair ==
    /\ InitJobs
    /\ [][NextOneJob]_vars
    /\ WF_vars(SubmitReturn)
    /\ WF_vars(WorkerStep(1))

-----------------------------------------------------------------------------
\* ---- inputs of the tracking sessions ----

BoxA == <<0, 0, 10, 10>>
BoxB == <<1, 1, 11, 11>>
BoxC == <<50, 50, 60, 60>>

\* detections handed to assign_track_ids_embedding
AssignInputs ==
    { [bbox |-> BoxA,  embedding |-> <<3, 0>>, quality_score |-> (5 * SCALE) \div 10],
      [bbox |-> BoxB,  embedding |-> <<8, 6>>, quality_score |-> (9 * SCALE) \div 10],
      [bbox |-> BoxC,  embedding |-> None,     quality_score |-> (5 * SCALE) \div 10],
      [bbox |-> NoKey, embedding |-> <<0, 5>>, quality_score |-> (5 * SCALE) \div 10] }

\* faces returned by the detector inside _do_swap
SwapInputs ==
    { [bbox |-> <<0, 0, 100, 100>>,     embedding |-> <<3, 0>>, det_score |-> (9 * SCALE) \div 10],
      [bbox |-> <<10, 10, 110, 110>>,   embedding |-> <<8, 6>>, det_score |-> (5 * SCALE) \div 10],
      [bbox |-> <<500, 500, 570, 570>>, embedding |-> None,     det_score |-> (5 * SCALE) \div 10] }

BoxD == <<100, 0, 110, 10>>

\* detections that tie: P1 and P2 on the sort key, and P3 is as similar to P1
\* (cosine 0.8) as it is to P2
TieInputs ==
    << [bbox |-> BoxA, embedding |-> <<6, 8>>,  quality_score |-> (5 * SCALE) \div 10],
       [bbox |-> BoxC, embedding |-> <<-6, 8>>, quality_score |-> (5 * SCALE) \div 10],
       [bbox |-> BoxD, embedding |-> <<0, 5>>,  quality_score |-> (5 * SCALE) \div 10] >>

\* the first and the last are orthogonal, the one in between has cosine 0.6
\* with the first and 0.8 with the last
DriftInputs ==
    << [bbox |-> BoxA, embedding |-> <<5, 0>>, quality_score |-> (5 * SCALE) \div 10],
       [bbox |-> BoxC, embedding |-> <<3, 4>>, quality_score |-> (5 * SCALE) \div 10],
       [bbox |-> BoxD, embedding |-> <<0, 5>>, quality_score |-> (5 * SCALE) \div 10] >>

\* quality scores far above those detect_faces computes (which stay below 2)
QualityInputs ==
    << [bbox |-> BoxA, embedding |-> <<5, 0>>, quality_score |-> 60 * SCALE],
       [bbox |-> BoxC, embedding |-> <<5, 0>>, quality_score |-> 20 * SCALE],
       [bbox |-> BoxD, embedding |-> <<0, 5>>, quality_score |-> (5 * SCALE) \div 10] >>

\* zero vectors
ZeroInputs ==
    << [bbox |-> BoxA, embedding |-> <<0, 0>>, quality_score |-> (5 * SCALE) \div 10],
       [bbox |-> BoxD, embedding |-> <<0, 0>>, quality_score |-> (5 * SCALE) \div 10] >>

\* the example of the specification: three boxes without embeddings
BoxesInputs ==
    << [bbox |-> BoxA, embedding |-> None, quality_score |-> (5 * SCALE) \div 10],
       [bbox |-> BoxB, embedding |-> None, quality_score |-> (5 * SCALE) \div 10],
       [bbox |-> BoxC, embedding |-> None, quality_score |-> (5 * SCALE) \div 10] >>

ProbeSessions == {"ties", "drift", "quality", "zero", "boxes"}

FrameLimit(s) == IF s \in ProbeSessions THEN MaxProbeFrames ELSE MaxFrames

\* req.target_face_track_id / req.target_face_embedding of a seeded swap request
TargetTrackIds == {0, 2}
SeedEmbedding == <<3, 0>>

\* the frames of at most MaxDets distinct detections drawn from S
RECURSIVE FramesOf(_, _)
FramesOf(S, n) ==
    IF n = 0 THEN {<<>>}
    ELSE FramesOf(S, n - 1) \cup
         {Append(p[1], p[2]) : p \in
             {q \in FramesOf(S, n - 1) \X S :
                  Len(q[1]) = n - 1 /\ \A i \in 1..Len(q[1]) : q[1][i] # q[2]}}

\* the detections of s at the indices I, in the order of s
RECURSIVE Pick(_, _, _)
Pick(s, I, i) ==
    IF i > Len(s) THEN <<>>
    ELSE (IF i \in I THEN <<s[i]>> ELSE <<>>) \o Pick(s, I, i + 1)

\* the frames of at most n of the detections s
FramesAmong(s, n) ==
    {Pick(s, I, 1) : I \in {J \in SUBSET (1..Len(s)) : Cardinality(J) <= n}}

\* the frames a session of assign_track_ids_embedding is called with
FramesFor(s) ==
    CASE s = "ties"    -> FramesAmong(TieInputs, MaxDets)
      [] s = "drift"   -> FramesAmong(DriftInputs, MaxDets)
      [] s = "quality" -> FramesAmong(QualityInputs, MaxDets)
      [] s = "zero"    -> FramesAmong(ZeroInputs, MaxDets)
      [] s = "boxes"   -> FramesAmong(BoxesInputs, MaxDets)
      [] OTHER         -> FramesOf(AssignInputs, MaxDets)

-----------------------------------------------------------------------------
\* ---- tracking sessions as a state machine ----

TrackState ==
    [next_id |-> next_id, te |-> track_embeddings, tb |-> track_bbox,
     tq |-> track_quality_scores, used |-> {}, new_frame |-> <<>>,
     allocated |-> allocated]

InitTrack ==
    /\ JobsOff
    /\ PureOff
    /\ LockOff
    /\ SwapOff
    /\ CacheOff
    /\ session \in {"assign", "swap"}
    \* detect_faces hands no threshold to assign_track_ids_embedding: one mode is enough
    /\ quality_mode \in IF session = "swap" THEN QualityModes ELSE {"balanced"}
    /\ next_id = 0
    /\ track_bbox = <<>>
    /\ track_quality_scores = <<>>
    /\ frames_in = <<>>
    /\ out = <<>>
    /\ allocated = <<>>
    /\ rerun = NoRerun
    \* _do_swap lines 939-943: a target embedding seeds track target_track_id
    /\ seeded \in IF session = "swap" THEN {{}} \cup {{t} : t \in TargetTrackIds} ELSE {{}}
    /\ track_embeddings =
         IF seeded = {} THEN <<>>
         ELSE <<[k |-> CHOOSE t \in seeded : TRUE,
                 v |-> <<normalize_face_embedding(SeedEmbedding)>>]>>

\* assign_track_ids_embedding: one iteration of the loop over the frames
\* (detect_faces calls it with the default sim_thresh)
AssignFrameStep ==
    /\ session \in {"assign"} \cup ProbeSessions
    /\ Len(out) < FrameLimit(session)
    /\ \E frame_dets \in FramesFor(session) :
         \E st \in {AssignFrame(TrackState, frame_dets, QUALITY_THRESHOLD)} :
             /\ next_id' = st.next_id
             /\ track_embeddings' = st.te
             /\ track_bbox' = st.tb
             /\ track_quality_scores' = st.tq
             /\ allocated' = st.allocated
             /\ frames_in' = Append(frames_in, frame_dets)
             /\ out' = Append(out, st.new_frame)
    /\ rerun' = NoRerun
    /\ UNCHANGED <<session, quality_mode, seeded, jobVars, pureVars, lockVars, swapVars, cacheVars>>

\* _do_swap: the tracker part of one iteration of the frame loop
SwapFrameStep ==
    /\ session = "swap"
    /\ Len(out) < MaxFrames
    /\ \E faces \in FramesOf(SwapInputs, MaxDets) :
         \E st \in {SwapFrame(TrackState, faces, quality_mode)} :
             /\ track_embeddings' = st.te
             /\ track_bbox' = st.tb
             /\ allocated' = st.allocated
             /\ frames_in' = Append(frames_in, faces)
             /\ out' = Append(out, st.new_frame)
    /\ UNCHANGED <<session, quality_mode, seeded, next_id, track_quality_scores, rerun, jobVars, pureVars, lockVars, swapVars, cacheVars>>

NextTrack == AssignFrameStep \/ SwapFrameStep

SpecTrack == InitTrack /\ [][NextTrack]_vars

\* assign_track_ids_embedding on the tie / drift / quality / zero inputs
InitProbe ==
    /\ JobsOff
    /\ PureOff
    /\ LockOff
    /\ SwapOff
    /\ CacheOff
    /\ session \in ProbeSessions
    /\ quality_mode = "balanced"
    /\ next_id = 0
    /\ track_embeddings = <<>>
    /\ track_bbox = <<>>
    /\ track_quality_scores = <<>>
    /\ frames_in = <<>>
    /\ out = <<>>
    /\ allocated = <<>>
    /\ seeded = {}
    /\ rerun = NoRerun

\* assign_track_ids_embedding is called again with the frames of the first call
RerunStep ==
    /\ session \in ProbeSessions
    /\ rerun = NoRerun
    /\ Len(frames_in) > 0
    /\ rerun' = AssignRun(AssignLocals(TrackState), frames_in, 1, <<>>)
    /\ UNCHANGED <<session, quality_mode, next_id, track_embeddings, track_bbox,
                   track_quality_scores, frames_in, out, allocated, seeded, jobVars, pureVars, lockVars, swapVars, cacheVars>>

NextProbe == AssignFrameStep \/ RerunStep

SpecProbe == InitProbe /\ [][NextProbe]_vars

-----------------------------------------------------------------------------
\* ---- properties of the tracking sessions ----

\* C1: in every output frame of assign_track_ids_embedding and of the inline
\* tracker of _do_swap, no two detections carry the same trackId.
C1_TrackIdsUniquePerFrame ==
    \A f \in 1..Len(out) : \A i, j \in 1..Len(out[f]) :
        i # j => out[f][i].trackId # out[f][j].trackId

\* two detections of the second frame both resemble track 0: the better one
\* takes it, the other one opens track 1
C1_Witness ==
    /\ session = "assign"
    /\ Len(out) = 2
    /\ out[1] = <<[bbox |-> BoxA, trackId |-> 0]>>
    /\ out[2] = <<[bbox |-> BoxB, trackId |-> 0], [bbox |-> BoxA, trackId |-> 1]>>

\* how many entries of the frame carry this bbox
CountBox(frame, box) == Cardinality({i \in 1..Len(frame) : frame[i].bbox = box})

C3_FreshIdsIncrease ==
    /\ \A i, j \in 1..Len(allocated) : i < j => allocated[i] < allocated[j]
    /\ \A i \in 1..Len(allocated) : allocated[i] \notin seeded

\* a seeded swap session that opened two tracks after the seeded one, the
\* second in a frame in which the first is not matched
C3_Witness ==
    /\ session = "swap"
    /\ seeded = {2}
    /\ allocated = <<3, 4>>
    /\ Len(out) = 2
    /\ \A i \in 1..Len(out[2]) : out[2][i].trackId # 3

-----------------------------------------------------------------------------
\* ---- properties of the job store and the workers ----

\* C4: for every job that ends completed, the progress values its worker wrote
\* after the submit handler's 0 are non-decreasing, whatever frame count the
\* source reported and however many frames were read.
C4_ProgressNonDecreasing ==
    \A i \in Running : workers[i].ended = "completed" => ~workers[i].nonmono

\* C5: once a record has status completed, error or failed, no later step
\* (a worker's update or another submit) changes it.
C5_TerminalRecordsFrozen ==
    [][\A id \in DOMAIN _jobs :
          _jobs[id].status \in Terminal => _jobs'[id] = _jobs[id]]_vars

\* worker i has just taken a step in which an exception of the given kinds was raised
Raised(i, kinds) ==
    /\ workers'[i] # workers[i]
    /\ workers'[i].exc \in kinds

ErrorRecorded(i) ==
    /\ _jobs'[workers[i].job_id].status \in {"error", "failed"}
    /\ _jobs'[workers[i].job_id].result.kind = "error"
    /\ _jobs'[workers[i].job_id].result.msg # ""
    /\ \A id \in DOMAIN _jobs : id # workers[i].job_id => _jobs'[id] = _jobs[id]

\* C6 as stated: any exception raised inside a worker leaves the job's record
\* with status error or failed and an error message, other records unchanged.
C6_Original ==
    [][\A i \in Running : Raised(i, {"absorbed", "fatal"}) => ErrorRecorded(i)]_vars

\* C6: an exception that reaches the except clause of the worker function
\* leaves the job's record with status error or failed and a result carrying
\* the message, and changes no other job's record.
C6_TopLevelExceptionsRecorded ==
    [][\A i \in Running : Raised(i, {"fatal"}) => ErrorRecorded(i)]_vars

C6_Witness ==
    \E i \in Running :
        /\ workers[i].exc = "fatal"
        /\ workers[i].pc \in {"done", "finally"}
        /\ _jobs[workers[i].job_id].status \in {"error", "failed"}
        /\ \E id \in DOMAIN _jobs :
              id # workers[i].job_id /\ _jobs[id].status \notin Terminal

\* C7 as stated: a terminated worker that created a frame directory has removed
\* it, in _do_swap and in _do_enhance alike.
C7_Original ==
    \A i \in Running :
        workers[i].pc = "done" /\ workers[i].frames_dir => i \notin dirs

\* C7: a terminated _do_swap worker that created a frame directory has removed
\* it on every exit path; a terminated _do_enhance worker that created one has
\* left it in place on every exit path.
C7_SwapRemovesEnhanceKeeps ==
    \A i \in Running :
        workers[i].pc = "done" /\ workers[i].frames_dir =>
            /\ service = "morph" => i \notin dirs
            /\ service = "deblur" => i \in dirs

C7_Witness ==
    \E i \in Running :
        /\ service = "morph"
        /\ workers[i].pc = "done"
        /\ workers[i].frames_dir
        /\ workers[i].ended = "failed"
        /\ i \notin dirs

\* C8: at most one background worker ever writes records under a given job id.
C8_AtMostOneWriter ==
    \A id \in DOMAIN writers : Cardinality(writers[id]) <= 1

\* C9: a poll for a job id that is not in the store answers not-found and
\* leaves the store as it was.
C9_UnknownPollNotFound ==
    [][response'.op = "poll" /\ response'.job_id \notin DOMAIN _jobs =>
          response'.code = 404 /\ _jobs' = _jobs]_vars

C9_Witness ==
    /\ response.op = "poll"
    /\ response.code = 404
    /\ response.job_id \notin DOMAIN _jobs
    /\ DOMAIN _jobs # {}

\* C10: when a submit handler returns a job id, the store holds a record under
\* that id with progress 0 and a status that is not completed, error or failed.
C10_SubmitLeavesFreshRecord ==
    response.op = "submit" =>
        /\ response.job_id \in DOMAIN _jobs
        /\ _jobs[response.job_id].progress = 0
        /\ _jobs[response.job_id].status \notin Terminal

\* C11: when a submit handler returns the job id, the initial record is in the
\* store and the worker it queued has not taken a step: it has loaded nothing,
\* created no directory and written no record.
C11_SubmitReturnsBeforeWorkerStarts ==
    [][response'.op = "submit" /\ Len(workers') = Len(workers) + 1 =>
          /\ response'.job_id \in DOMAIN _jobs'
          /\ workers'[Len(workers')].job_id = response'.job_id
          /\ workers'[Len(workers')].pc = "start"
          /\ workers'[Len(workers')].wrote = InitialRecord
          /\ Len(workers') \notin writers'[response'.job_id]
          /\ Len(workers') \notin dirs']_vars

\* a submit returns while the worker of an earlier submit is already running
C11_Witness ==
    /\ response.op = "submit"
    /\ Len(workers) = 2
    /\ workers[1].pc \notin {"start", "done"}
    /\ workers[2].pc = "start"
    /\ workers[2].job_id = response.job_id

\* C12: in every reachable state, a record whose status is completed has
\* progress 100.
C12_CompletedHasProgress100 ==
    \A id \in DOMAIN _jobs :
        _jobs[id].status = "completed" => _jobs[id].progress = Pct(100)

\* a swap job completed after a progress above 100 had been written
C12_Witness ==
    \E i \in Running :
        /\ service = "morph"
        /\ workers[i].ended = "completed"
        /\ workers[i].nonmono
        /\ _jobs[workers[i].job_id].status = "completed"

SpecStatuses ==
    {"queued", "starting", "loading_model", "processing_frames", "encoding",
     "completed", "error", "failed"}

\* C13 as stated: every status stored is one of the eight of the enumeration.
C13_Original ==
    \A id \in DOMAIN _jobs : _jobs[id].status \in SpecStatuses

\* C13: every status stored in a job record is one of queued, starting,
\* loading_model, processing_frames, encoding, completed, error, failed,
\* processing (morph), reading_video, ffmpeg_processing (deblur) and
\* generating (wan).
C13_StatusesWritten ==
    \A id \in DOMAIN _jobs :
        _jobs[id].status \in SpecStatuses \cup
            {"processing", "reading_video", "ffmpeg_processing", "generating"}

C13_Witness ==
    \E id \in DOMAIN _jobs : _jobs[id].status = "ffmpeg_processing"

\* the status changes of the happy paths, by service
HappyPath(svc) ==
    CASE svc = "morph" ->
           {<<"starting", "processing">>, <<"processing", "encoding">>,
            <<"encoding", "completed">>}
      [] svc = "deblur" ->
           {<<"starting", "loading_model">>, <<"loading_model", "reading_video">>,
            <<"reading_video", "processing_frames">>, <<"processing_frames", "encoding">>,
            <<"encoding", "completed">>,
            <<"loading_model", "ffmpeg_processing">>, <<"ffmpeg_processing", "completed">>}
      [] svc = "wan" ->
           {<<"queued", "starting">>, <<"starting", "loading_model">>,
            <<"loading_model", "generating">>, <<"generating", "encoding">>,
            <<"encoding", "completed">>}
      [] OTHER -> {}

SpecPath ==
    {<<"queued", "starting">>, <<"starting", "loading_model">>,
     <<"loading_model", "processing_frames">>, <<"processing_frames", "encoding">>,
     <<"encoding", "completed">>}

\* C14 as stated: a record's status moves along queued, starting,
\* loading_model, processing_frames, encoding, completed, and any other change
\* leads from a non-terminal status to error or failed.
C14_Original ==
    [][\A id \in DOMAIN _jobs :
          _jobs'[id].status # _jobs[id].status =>
              \/ <<_jobs[id].status, _jobs'[id].status>> \in SpecPath
              \/ _jobs[id].status \notin Terminal /\ _jobs'[id].status \in {"error", "failed"}]_vars

\* C14: the statuses written for one job by its submit handler and then its
\* worker change along the path of the service (morph: starting, processing,
\* encoding, completed; deblur: starting, loading_model, reading_video,
\* processing_frames, encoding, completed, or from loading_model through
\* ffmpeg_processing to completed; wan: queued, starting, loading_model,
\* generating, encoding, completed), and any other change leads from a
\* non-terminal status to error or failed.
C14_StatusesFollowServicePath ==
    [][\A i \in Running :
          workers'[i].wrote.status # workers[i].wrote.status =>
              \/ <<workers[i].wrote.status, workers'[i].wrote.status>> \in HappyPath(service)
              \/ /\ workers[i].wrote.status \notin Terminal
                 /\ workers'[i].wrote.status \in {"error", "failed"}]_vars

C14_Witness ==
    \E i \in Running :
        /\ service = "deblur"
        /\ workers[i].pc = "done"
        /\ workers[i].wrote.status = "completed"
        /\ workers[i].frames_dir

\* C17: a poll that finds a record returns the whole record one call of
\* update_job_progress wrote for that id: the record last written by one of
\* the workers of the id or by a submit handler of the id.
C17_PollReturnsOneWrite ==
    [][response'.op = "poll" /\ response'.code = 200 =>
          \/ \E i \in Running :
                /\ workers[i].job_id = response'.job_id
                /\ response'.job = workers[i].wrote
          \/ \E h \in 1..Len(handlers) :
                /\ handlers[h] = response'.job_id
                /\ response'.job = InitialRecord]_vars

\* a poll of an id under which two workers have written
C17_Witness ==
    /\ response.op = "poll"
    /\ response.code = 200
    /\ Cardinality(writers[response.job_id]) = 2
    /\ response.job.progress > 0

\* C16: every job that has a record eventually has a record with status
\* completed, error or failed, when handlers and workers are scheduled fairly,
\* every external call returns or raises, and the source delivers finitely
\* many frames.
C16_JobsReachTerminalStatus ==
    \A id \in JobIds \cup Uuids :
        (id \in DOMAIN _jobs) ~> (id \in DOMAIN _jobs /\ _jobs[id].status \in Terminal)

\* a worker that read frames has ended and its job's record is terminal
C16_Witness ==
    \E i \in Running :
        /\ workers[i].pc = "done"
        /\ workers[i].frame_idx > 0
        /\ _jobs[workers[i].job_id].status \in Terminal

-----------------------------------------------------------------------------
\* C15: a swap worker that wrote the completed record has written one frame
\* file for every frame it read, with the indices 0..n-1 and no gap.  The
\* code does not keep this: a frame whose processing raises is counted but
\* leaves no file, a progress write that divides by total_frames = 0 makes
\* the counter pass over an index, and the worker still encodes and writes
\* completed.
C15_CompletedSwapWroteEveryFrame ==
    \A i \in Running :
        (service = "morph" /\ workers[i].ended = "completed") => ~workers[i].gap

-----------------------------------------------------------------------------
OutId(new_frame, bbox) ==
    new_frame[CHOOSE n \in 1..Len(new_frame) : new_frame[n].bbox = bbox].trackId

\* the final score of the t-th track of the gallery for an embedding
TrackScore(emb, te, tq, t) ==
    FinalScore([j \in 1..Len(te[t].v) |-> _cosine_sim(emb, te[t].v[j])],
               DictGetOr(tq, te[t].k, 0) \div 10)

\* the frame just processed gives track tid to no detection other than det
Unclaimed(new_frame, det, tid) ==
    \A n \in 1..Len(new_frame) :
        new_frame[n].bbox # det.bbox => new_frame[n].trackId # tid

\* the detections of the frame just processed that carry a bbox and an embedding
Matchable(frame_dets) ==
    {frame_dets[n] : n \in {m \in 1..Len(frame_dets) :
                               frame_dets[m].bbox # NoKey /\ frame_dets[m].embedding # None}}

\* C19 as stated: a detection whose cosine similarity to an embedding of an
\* existing track exceeds the threshold, the track being claimed by no other
\* detection of the frame, receives that track's id.
C19_Original ==
    [][Len(out') = Len(out) + 1 =>
         \A det \in Matchable(frames_in'[Len(frames_in')]) :
           \A t \in 1..Len(track_embeddings) :
             ( /\ \E j \in 1..Len(track_embeddings[t].v) :
                     _cosine_sim(normalize_face_embedding(det.embedding),
                                 track_embeddings[t].v[j]) > QUALITY_THRESHOLD
               /\ Unclaimed(out'[Len(out')], det, track_embeddings[t].k) )
             => OutId(out'[Len(out')], det.bbox) = track_embeddings[t].k]_vars

\* C19: a detection with an embedding receives the id of the existing track
\* whose final score (0.7 max + 0.3 mean of the cosines to the track's gallery,
\* plus a tenth of the track quality) exceeds the threshold and is the highest,
\* the track stored first among equal scores, when no other detection of the
\* frame receives that id.
C19_BestScoringTrackWins ==
    [][Len(out') = Len(out) + 1 =>
         \A det \in Matchable(frames_in'[Len(frames_in')]) :
           \A t \in 1..Len(track_embeddings) :
             ( /\ TrackScore(normalize_face_embedding(det.embedding),
                             track_embeddings, track_quality_scores, t) > QUALITY_THRESHOLD
               /\ \A u \in 1..Len(track_embeddings) :
                     \/ u = t
                     \/ TrackScore(normalize_face_embedding(det.embedding),
                                   track_embeddings, track_quality_scores, u)
                          < TrackScore(normalize_face_embedding(det.embedding),
                                       track_embeddings, track_quality_scores, t)
                     \/ /\ t < u
                        /\ TrackScore(normalize_face_embedding(det.embedding),
                                      track_embeddings, track_quality_scores, u)
                             = TrackScore(normalize_face_embedding(det.embedding),
                                          track_embeddings, track_quality_scores, t)
               /\ Unclaimed(out'[Len(out')], det, track_embeddings[t].k) )
             => OutId(out'[Len(out')], det.bbox) = track_embeddings[t].k]_vars

\* two tracks score the same for the detection of the second frame, which has
\* received the id of the track stored first
C19_Witness ==
    /\ session = "ties"
    /\ Len(out) = 2
    /\ Len(out[1]) = 2
    /\ Len(frames_in[2]) = 1
    /\ frames_in[2][1].embedding = <<0, 5>>
    /\ out[2][1].trackId = out[1][1].trackId
    /\ out[1][2].trackId # out[1][1].trackId

\* the detections of frame k that carry a bbox and an embedding
DetsOf(k) == Matchable(frames_in[k])

\* cosine similarity 0 (orthogonal or zero vectors) and boxes that do not overlap
Unrelated(d, e) ==
    /\ _cosine_sim(normalize_face_embedding(d.embedding),
                   normalize_face_embedding(e.embedding)) = 0
    /\ iou_box(d.bbox, e.bbox) = 0

StartsTrack(k, d) ==
    \A m \in 1..(k - 1) : \A n \in 1..Len(out[m]) :
        out[m][n].trackId # OutId(out[k], d.bbox)

\* quality_bonus of a track that holds one detection of this quality_score
NewTrackBonus(quality_score) == ((2 * quality_score) \div 10) \div 10

-----------------------------------------------------------------------------
\* the track ids of the output frames, frame by frame
TrackIds(o) == [k \in 1..Len(o) |-> [n \in 1..Len(o[k]) |-> o[k][n].trackId]]

\* [[{box:[0,0,10,10]}], [{box:[1,1,11,11]}], [{box:[50,50,60,60]}]], no embeddings
ExampleFrames == <<<<BoxesInputs[1]>>, <<BoxesInputs[2]>>, <<BoxesInputs[3]>>>>

\* C21: for three frames of one detection each, with the boxes [0,0,10,10],
\* [1,1,11,11], [50,50,60,60] and no embeddings, assign_track_ids_embedding
\* gives the track ids 0, 0, 1.
C21_ExampleIds ==
    frames_in = ExampleFrames => TrackIds(out) = <<<<0>>, <<0>>, <<1>>>>

\* the three frames of the example have been processed
C21_Witness ==
    /\ session = "boxes"
    /\ frames_in = ExampleFrames
    /\ Len(out) = 3

-----------------------------------------------------------------------------
\* C22: a generate job whose duration d is 3, 5 or 8 hands DURATION_TO_FRAMES[d]
\* frames to the pipeline, and its record, once completed, reports that same
\* number as num_frames.  The worker keeps this for what it passes and writes;
\* the record under its job id does not when a second job runs under that id.
C22_CompletedReportsTableFrames ==
    \A i \in Running :
        (service = "wan" /\ workers[i].duration \in DOMAIN DURATION_TO_FRAMES) =>
            /\ workers[i].pipe_num_frames \in {0, DURATION_TO_FRAMES[workers[i].duration]}
            /\ _jobs[workers[i].job_id].status = "completed" =>
                  _jobs[workers[i].job_id].result.num_frames
                      = DURATION_TO_FRAMES[workers[i].duration]

------------------------------------------------------------------------------
\* ---- morph-service: seam feathering (soften_swap_edges) ----
\*
\* An image is a function from the rows 0..h-1 to functions from the columns
\* 0..w-1 to <<r, g, b>> triples of uint8. The change mask holds 0 or 1; the
\* soft mask is counted in 1/4096: the 7-tap kernel GaussianBlur uses for
\* ksize 7 and sigma 0 is (2, 7, 14, 18, 14, 7, 2)/64 along each axis, so every
\* float32 value of the original is a multiple of 1/4096 and the blend below
\* is exact.

ImgH == 3
ImgW == 8

Rows == 0..(ImgH - 1)
Cols == 0..(ImgW - 1)

ALPHA_ONE == 64 * 64

KERNEL7 == <<2, 7, 14, 18, 14, 7, 2>>

Abs(x) == IF x >= 0 THEN x ELSE -x

\* int(v * 0.25): int() truncates toward zero
IntQuarter(v) == IF v >= 0 THEN v \div 4 ELSE -((-v) \div 4)

MarginHalf(face_w, face_h) == Max(face_w, face_h) \div 2

Margin(face_w, face_h) == IntQuarter(Max(face_w, face_h))

\* <<rx1, ry1, rx2, ry2>>
Region(bbox, h, w) ==
    LET margin == Margin(bbox[3] - bbox[1], bbox[4] - bbox[2])
    IN  <<Max(0, bbox[1] - margin), Max(0, bbox[2] - margin),
          Min(w, bbox[3] + margin), Min(h, bbox[4] + margin)>>

InRegion(r, y, x) == r[2] <= y /\ y < r[4] /\ r[1] <= x /\ x < r[3]

\* np.abs(swap - orig).mean(axis=2) > 5.0, over the three channels
Changed(o, s) == Abs(s[1] - o[1]) + Abs(s[2] - o[2]) + Abs(s[3] - o[3]) > 3 * 5

\* change_mask, indexed from the corner of the region
ChangeMask(original_rgb, swapped_rgb, r) ==
    [yy \in 0..(r[4] - r[2] - 1) |-> [xx \in 0..(r[3] - r[1] - 1) |->
        IF Changed(original_rgb[r[2] + yy][r[1] + xx], swapped_rgb[r[2] + yy][r[1] + xx])
        THEN 1 ELSE 0]]

MaskSum(mask) ==
    Cardinality({p \in (DOMAIN mask) \X (DOMAIN mask[0]) : mask[p[1]][p[2]] = 1})

TooFewChangedOnlyEmpty(n) == n < 1

\* change_mask.sum() < 10
TooFewChanged(n) == n < 10

\* max(7, int(min(rw, rh) * blur_radius)) | 1, blur_radius = 0.08
KernelSize(rw, rh) ==
    LET k == Max(7, (Min(rw, rh) * 8) \div 100)
    IN  IF k % 2 = 1 THEN k ELSE k + 1

\* BORDER_REFLECT_101, the default border of GaussianBlur
RECURSIVE Reflect101(_, _)
Reflect101(p, n) ==
    IF n = 1 THEN 0
    ELSE IF p < 0 THEN Reflect101(-p, n)
    ELSE IF p >= n THEN Reflect101(2 * (n - 1) - p, n)
    ELSE p

Sum7(f) == f[1] + f[2] + f[3] + f[4] + f[5] + f[6] + f[7]

\* the row pass of the separable filter, in 1/64
RowBlur(mask, yy, xx, rw) ==
    Sum7([t \in 1..7 |-> KERNEL7[t] * mask[yy][Reflect101(xx + t - 4, rw)]])

\* cv2.GaussianBlur(change_mask, (7, 7), 0) at one pixel, in 1/4096
GaussianBlur(mask, yy, xx, rw, rh) ==
    Sum7([t \in 1..7 |-> KERNEL7[t] * RowBlur(mask, Reflect101(yy + t - 4, rh), xx, rw)])

MaxWithMaskSkipped(soft, m) == soft

\* np.maximum(soft_mask, change_mask)
MaxWithMask(soft, m) == Max(soft, m * ALPHA_ONE)

\* np.clip(soft_mask, 0, 1)
Clip(a) == Max(0, Min(ALPHA_ONE, a))

\* soft_mask of the code after the maximum and the clip, at one pixel
SoftMask(mask, yy, xx) ==
    Clip(MaxWithMask(GaussianBlur(mask, yy, xx,
                                  Cardinality(DOMAIN mask[0]), Cardinality(DOMAIN mask)),
                     mask[yy][xx]))

\* (orig * (1. - soft_mask) + swap * soft_mask).astype(np.uint8)
Blend(o, s, a) == [c \in 1..3 |-> (o[c] * (ALPHA_ONE - a) + s[c] * a) \div ALPHA_ONE]

\* result = swapped_rgb.copy(); result[ry1:ry2, rx1:rx2] = blended
Blended(original_rgb, swapped_rgb, r, mask) ==
    [y \in DOMAIN swapped_rgb |-> [x \in DOMAIN swapped_rgb[y] |->
        IF InRegion(r, y, x)
        THEN Blend(original_rgb[y][x], swapped_rgb[y][x],
                   SoftMask(mask, y - r[2], x - r[1]))
        ELSE swapped_rgb[y][x]]]

SoftenMasked(original_rgb, swapped_rgb, r, mask) ==
    IF TooFewChanged(MaskSum(mask)) THEN swapped_rgb
    ELSE Blended(original_rgb, swapped_rgb, r, mask)

SoftenIn(original_rgb, swapped_rgb, r) ==
    IF r[3] <= r[1] \/ r[4] <= r[2] THEN swapped_rgb
    ELSE SoftenMasked(original_rgb, swapped_rgb, r,
                      ChangeMask(original_rgb, swapped_rgb, r))

soften_swap_edges(original_rgb, swapped_rgb, bbox) ==
    IF bbox = None \/ Len(bbox) # 4 THEN swapped_rgb
    ELSE SoftenIn(original_rgb, swapped_rgb,
                  Region(bbox, Cardinality(DOMAIN original_rgb),
                         Cardinality(DOMAIN original_rgb[0])))

\* ---- the calls of soften_swap_edges the model makes ----

OriginalImage == [y \in Rows |-> [x \in Cols |-> <<100 + 10 * x, 100 + 5 * y, 50>>]]

\* img with delta added to every pixel of the rectangle <<x1, y1, x2, y2>>
Paste(img, rect, delta) ==
    [y \in DOMAIN img |-> [x \in DOMAIN img[y] |->
        IF InRegion(rect, y, x)
        THEN <<img[y][x][1] + delta[1], img[y][x][2] + delta[2], img[y][x][3] + delta[3]>>
        ELSE img[y][x]]]

\* what the swapper pasted: nothing, or a rectangle of full or all but full height
PastedRects ==
    {<<0, 0, 0, 0>>}
      \cup {<<x1, 0, x2, y2>> : x1 \in Cols, x2 \in 1..ImgW, y2 \in {ImgH - 1, ImgH}}

\* one more pixel of the middle row, changed a little: below, at and above
\* the threshold of the change mask
FaintDeltas == {<<0, 0, 0>>, <<3, 3, 3>>, <<5, 5, 5>>, <<6, 5, 5>>}

SwappedImages ==
    {Paste(Paste(OriginalImage, rect, <<50, 50, 50>>), <<x, 1, x + 1, 2>>, d) :
        rect \in {q \in PastedRects : q[1] < q[3] \/ q[3] = 0},
        x \in Cols, d \in FaintDeltas}

\* None, a face box in the left of the frame, a flat box, a box reaching the
\* frame on three sides, a list of three numbers, a box beyond the frame
FeatherBoxes ==
    {None, <<0, 0, 4, 3>>, <<2, 1, 6, 2>>, <<1, 0, 7, 3>>, <<1, 0, 4>>,
     <<ImgW + 1, 0, ImgW + 4, 3>>}

InitFeather ==
    /\ JobsOff
    /\ TrackOff
    /\ LockOff
    /\ SwapOff
    /\ CacheOff
    /\ iou_call = NoCall
    /\ \E img \in SwappedImages, bbox \in FeatherBoxes :
           feather = [original_rgb |-> OriginalImage, swapped_rgb |-> img,
                      bbox |-> bbox, result |-> <<>>, done |-> FALSE]

SoftenStep ==
    /\ ~feather.done
    /\ feather' = [feather EXCEPT
                       !.result = soften_swap_edges(feather.original_rgb,
                                                    feather.swapped_rgb, feather.bbox),
                       !.done = TRUE]
    /\ UNCHANGED <<iou_call, trackVars, jobVars, lockVars, swapVars, cacheVars>>

NextFeather == SoftenStep

SpecFeather == InitFeather /\ [][NextFeather]_vars

------------------------------------------------------------------------------
\* ---- seam feathering: the claims ----

HasBox(f) == f.bbox # None /\ Len(f.bbox) = 4

\* the working region as the claims word it: the alteration box expanded on
\* each side by 25% of its larger dimension, clamped to the image bounds
WorkingRegion(bbox) ==
    LET m == Max(bbox[3] - bbox[1], bbox[4] - bbox[2]) \div 4
    IN  <<Max(0, bbox[1] - m), Max(0, bbox[2] - m),
          Min(ImgW, bbox[3] + m), Min(ImgH, bbox[4] + m)>>

Pixels == Rows \X Cols

InWorkingRegion(f, p) == InRegion(WorkingRegion(f.bbox), p[1], p[2])

\* mean absolute channel difference above 5.0 between original and modified
AboveThreshold(f, p) ==
    Changed(f.original_rgb[p[1]][p[2]], f.swapped_rgb[p[1]][p[2]])

ChangedInRegion(f) ==
    {p \in Pixels : InWorkingRegion(f, p) /\ AboveThreshold(f, p)}

StrictlyInside(bbox, p) ==
    /\ bbox[1] < p[2] /\ p[2] < bbox[3] - 1
    /\ bbox[2] < p[1] /\ p[1] < bbox[4] - 1

\* the value the blur alone gives the soft mask at pixel p of the frame
BlurAt(f, p) ==
    LET r == WorkingRegion(f.bbox)
    IN  GaussianBlur(ChangeMask(f.original_rgb, f.swapped_rgb, r),
                     p[1] - r[2], p[2] - r[1], r[3] - r[1], r[4] - r[2])

\* the alpha of the blend at pixel p of the frame
AlphaAt(f, p) ==
    LET r == WorkingRegion(f.bbox)
    IN  SoftMask(ChangeMask(f.original_rgb, f.swapped_rgb, r), p[1] - r[2], p[2] - r[1])

\* C23: soften_swap_edges returns an image identical to the modified one
\* whenever fewer than 10 pixels of the working region have a mean absolute
\* channel difference above 5.0, and so whenever modified equals original.
C23_FewChangesReturnModified ==
    feather.done =>
        /\ (HasBox(feather) /\ Cardinality(ChangedInRegion(feather)) < 10)
               => feather.result = feather.swapped_rgb
        /\ feather.swapped_rgb = feather.original_rgb
               => feather.result = feather.swapped_rgb

\* between 1 and 9 pixels of the region are in the change mask and another
\* pixel of the region differs from the original below the threshold
C23_Witness ==
    /\ feather.done
    /\ HasBox(feather)
    /\ Cardinality(ChangedInRegion(feather)) \in 1..9
    /\ \E p \in Pixels :
           /\ InWorkingRegion(feather, p)
           /\ ~AboveThreshold(feather, p)
           /\ feather.swapped_rgb[p[1]][p[2]] # feather.original_rgb[p[1]][p[2]]
    /\ feather.result = feather.swapped_rgb

C25_OutsideRegionUntouched ==
    (feather.done /\ HasBox(feather)) =>
        \A p \in Pixels :
            ~InWorkingRegion(feather, p)
                => feather.result[p[1]][p[2]] = feather.swapped_rgb[p[1]][p[2]]

\* the blend ran over the region, and a pixel outside it, next to its edge,
\* differs from the original below the threshold and came out as modified
C25_Witness ==
    /\ feather.done
    /\ HasBox(feather)
    /\ Cardinality(ChangedInRegion(feather)) >= 10
    /\ \E p \in Pixels :
           /\ ~InWorkingRegion(feather, p)
           /\ InRegion(WorkingRegion(feather.bbox), p[1], p[2] - 1)
           /\ ~AboveThreshold(feather, p)
           /\ feather.swapped_rgb[p[1]][p[2]] # feather.original_rgb[p[1]][p[2]]
           /\ feather.result[p[1]][p[2]] = feather.swapped_rgb[p[1]][p[2]]

------------------------------------------------------------------------------
\* ---- wan-service: the threads around _jobs_lock ----
\*
\* One request of POST /generate, its background task and a client polling
\* GET /progress, one lock operation at a time. threads holds the place of
\* each thread: a store site is a call of update_job_progress or the lookup of
\* get_progress, where the thread is about to enter `with _jobs_lock:` or is
\* inside it; a blocking site is a call of the worker that blocks.

LockThreads == {"handler", "worker", "poller"}

StoreSites ==
    {"queued", "starting", "rejected", "loading_model", "generating", "callback",
     "encoding", "completed", "error", "get"}

\* from_pretrained(...), pipe(...), export_to_video(...)
BlockingSites == {"load", "pipe", "export"}

Modes == {"text-to-video", "image-to-video"}

UnlockForgotten(t) == t

\* the end of `with _jobs_lock:`
Unlock(t) == "free"

\* the arguments of update_job_progress at each site of the worker
SiteWrite(site, step, num_frames) ==
    CASE site = "queued"        -> [progress |-> 0, status |-> "queued", result |-> NoResult]
      [] site = "starting"      -> [progress |-> 0, status |-> "starting", result |-> NoResult]
      [] site = "rejected"      ->
             [progress |-> 0, status |-> "error",
              result |-> ErrorResult("Image-to-Video requires 14B model. Use Text-to-Video for now.")]
      [] site = "loading_model" -> [progress |-> Pct(5), status |-> "loading_model", result |-> NoResult]
      [] site = "generating"    -> [progress |-> Pct(15), status |-> "generating", result |-> NoResult]
      [] site = "callback"      ->
             [progress |-> Pct(15) + Round((step + 1) * 75 * 100, NUM_INFERENCE_STEPS),
              status |-> "generating", result |-> NoResult]
      [] site = "encoding"      -> [progress |-> Pct(90), status |-> "encoding", result |-> NoResult]
      [] site = "completed"     ->
             [progress |-> Pct(100), status |-> "completed", result |-> WanResult(num_frames)]
      [] site = "error"         ->
             [progress |-> 0, status |-> "error", result |-> ErrorResult("exception")]

\* where the worker goes on after the write at a site
AfterWrite(site, mode) ==
    CASE site = "starting"      -> IF mode = "image-to-video" THEN "rejected" ELSE "loading_model"
      [] site = "rejected"      -> "done"
      [] site = "loading_model" -> "load"
      [] site = "generating"    -> "pipe"
      [] site = "callback"      -> "pipe"
      [] site = "encoding"      -> "export"
      [] site = "completed"     -> "done"
      [] site = "error"         -> "done"

\* where the worker goes on after a blocking call returns
AfterBlocking(site) ==
    CASE site = "load"   -> "generating"
      [] site = "pipe"   -> "encoding"
      [] site = "export" -> "completed"

InitLock ==
    /\ TrackOff
    /\ PureOff
    /\ SwapOff
    /\ CacheOff
    /\ service = "wan"
    /\ _jobs = <<>>
    /\ handlers = <<>>
    /\ workers = <<>>
    /\ dirs = {}
    /\ response = NoResponse
    /\ writers = [id \in JobIds \cup Uuids |-> {}]
    /\ _jobs_lock = "free"
    /\ \E mode \in Modes :
           threads = [handler |-> "queued", worker |-> "idle", poller |-> "get",
                      mode |-> mode, step |-> 0, job |-> NoJob]

LockFrame ==
    UNCHANGED <<service, handlers, workers, dirs, writers, trackVars, pureVars, swapVars, cacheVars>>

\* `with _jobs_lock:` is entered: the thread waits until the lock is free
LockAcquire(t) ==
    /\ threads[t] \in StoreSites
    /\ _jobs_lock = "free"
    /\ _jobs_lock' = t
    /\ UNCHANGED <<threads, _jobs, response>>
    /\ LockFrame

\* generate: the body of update_job_progress(job_id, 0, "queued") and its end
HandlerWrite ==
    /\ _jobs_lock = "handler"
    /\ \E w \in {SiteWrite("queued", 0, 0)} :
           _jobs' = update_job_progress(_jobs, "j1", w.progress, w.status, w.result)
    /\ _jobs_lock' = Unlock("handler")
    /\ threads' = [threads EXCEPT !.handler = "add_task"]
    /\ UNCHANGED response
    /\ LockFrame

\* generate: background_tasks.add_task(_run_t2v_inference, job_id, req); return
AddTask ==
    /\ threads.handler = "add_task"
    /\ threads' = [threads EXCEPT !.handler = "returned", !.worker = "starting"]
    /\ response' = [op |-> "submit", job_id |-> "j1", code |-> 200,
                    job |-> [progress |-> 0, status |-> "queued", result |-> NoResult]]
    /\ UNCHANGED <<_jobs, _jobs_lock>>
    /\ LockFrame

\* _run_t2v_inference, progress_callback: the body of update_job_progress and its end
WorkerWrite ==
    /\ _jobs_lock = "worker"
    /\ \E w \in {SiteWrite(threads.worker, threads.step, DEFAULT_NUM_FRAMES)} :
           _jobs' = update_job_progress(_jobs, "j1", w.progress, w.status, w.result)
    /\ _jobs_lock' = Unlock("worker")
    /\ threads' = [threads EXCEPT
                       !.worker = AfterWrite(threads.worker, threads.mode),
                       !.step = IF threads.worker = "callback" THEN @ + 1 ELSE @]
    /\ UNCHANGED response
    /\ LockFrame

\* pipe(...) calls callback_on_step_end after a denoising step
PipeCallsBack ==
    /\ threads.worker = "pipe"
    /\ threads.step < NUM_INFERENCE_STEPS
    /\ threads' = [threads EXCEPT !.worker = "callback"]
    /\ UNCHANGED <<_jobs, _jobs_lock, response>>
    /\ LockFrame

\* a blocking call of the worker returns
BlockingReturns ==
    /\ threads.worker \in BlockingSites
    /\ threads.worker = "pipe" => threads.step = NUM_INFERENCE_STEPS
    /\ threads' = [threads EXCEPT !.worker = AfterBlocking(threads.worker)]
    /\ UNCHANGED <<_jobs, _jobs_lock, response>>
    /\ LockFrame

\* a blocking call of the worker raises: except Exception as e
BlockingRaises ==
    /\ threads.worker \in BlockingSites
    /\ threads' = [threads EXCEPT !.worker = "error"]
    /\ UNCHANGED <<_jobs, _jobs_lock, response>>
    /\ LockFrame

\* get_progress: job = _jobs.get(job_id) and the end of `with _jobs_lock:`
PollerRead ==
    /\ _jobs_lock = "poller"
    /\ \E r \in {get_progress(_jobs, "j1")} :
           threads' = [threads EXCEPT !.poller = IF r.code = 200 THEN "return" ELSE "raise",
                                      !.job = r.job]
    /\ _jobs_lock' = Unlock("poller")
    /\ UNCHANGED <<_jobs, response>>
    /\ LockFrame

\* get_progress: raise HTTPException(404) or return job; the client polls again
PollerResponds ==
    /\ threads.poller \in {"return", "raise"}
    /\ response' = [op |-> "poll", job_id |-> "j1",
                    code |-> IF threads.poller = "return" THEN 200 ELSE 404,
                    job |-> threads.job]
    /\ threads' = [threads EXCEPT !.poller = "get", !.job = NoJob]
    /\ UNCHANGED <<_jobs, _jobs_lock>>
    /\ LockFrame

NextLock ==
    \/ \E t \in LockThreads : LockAcquire(t)
    \/ HandlerWrite
    \/ AddTask
    \/ WorkerWrite
    \/ PipeCallsBack
    \/ BlockingReturns
    \/ BlockingRaises
    \/ PollerRead
    \/ PollerResponds

SpecLock == InitLock /\ [][NextLock]_vars

\* C26: in the wan service _jobs_lock is held only during the dictionary write
\* of update_job_progress and the dictionary read of get_progress: a thread
\* that holds it is at a store site, and the worker never holds it while it
\* loads the model, runs inference or encodes the video.
C26_LockHeldOnlyAroundStore ==
    /\ _jobs_lock \in LockThreads => threads[_jobs_lock] \in StoreSites
    /\ threads.worker \in BlockingSites => _jobs_lock # "worker"

\* the worker is inside pipe(...) after a callback wrote the record, while the
\* poller holds the lock
C26_Witness ==
    /\ threads.worker = "pipe"
    /\ threads.step > 0
    /\ _jobs["j1"].status = "generating"
    /\ _jobs_lock = "poller"

------------------------------------------------------------------------------
\* ---- morph-service: calls of iou_box ----

MaxCoord == 3

\* the boxes [x1, y1, x2, y2] with x1 < x2 and y1 < y2
IouBoxes ==
    {<<x1, y1, x2, y2>> : x1 \in 0..MaxCoord, y1 \in 0..MaxCoord,
                          x2 \in 0..MaxCoord, y2 \in 0..MaxCoord}
      \ {b \in (0..MaxCoord) \X (0..MaxCoord) \X (0..MaxCoord) \X (0..MaxCoord) :
             b[1] >= b[3] \/ b[2] >= b[4]}

InitIou ==
    /\ JobsOff
    /\ TrackOff
    /\ LockOff
    /\ SwapOff
    /\ CacheOff
    /\ feather = NoCall
    /\ \E a \in IouBoxes, b \in IouBoxes :
           iou_call = [a |-> a, b |-> b, value |-> 0, done |-> FALSE]

IouStep ==
    /\ ~iou_call.done
    /\ iou_call' = [iou_call EXCEPT !.value = iou_box(iou_call.a, iou_call.b),
                                    !.done = TRUE]
    /\ UNCHANGED <<feather, trackVars, jobVars, lockVars, swapVars, cacheVars>>

NextIou == IouStep

SpecIou == InitIou /\ [][NextIou]_vars

\* C27 as stated: iou_box(a, a) equals 1.0 for every box a with x1 < x2 and
\* y1 < y2.
C27_Original ==
    (iou_call.done /\ iou_call.a = iou_call.b) => iou_call.value = SCALE

\* C27: iou_box(a, a) is A / (A + 1e-6) for the area A of a box a with integer
\* coordinates, x1 < x2 and y1 < y2: below 1.0 by less than 1e-6, which is
\* 0.9999 when floored to four decimals.
C27_SelfIouJustBelowOne ==
    (iou_call.done /\ iou_call.a = iou_call.b) => iou_call.value = SCALE - 1

\* iou_box has been called with twice the same box, wider than high
C27_Witness ==
    /\ iou_call.done
    /\ iou_call.a = iou_call.b
    /\ iou_call.a[3] - iou_call.a[1] > iou_call.a[4] - iou_call.a[2]
    /\ iou_call.value = SCALE - 1

------------------------------------------------------------------------------
\* ---- the two trackers on the same faces ----
\*
\* detect_faces hands the faces of its keyframes to assign_track_ids_embedding;
\* _do_swap tracks the faces of every frame inline, and falls back on
\* det["trackId"] == target_track_id, the id the client picked from the
\* result of detect_faces, when no target embedding matches.

\* two faces of one person with the same quality_score 1.3125: the first is
\* smaller (100 x 100, det_score 0.9375), the second larger (250 x 400, 0.875)
RankFaces ==
    << [bbox |-> <<0, 0, 100, 100>>,   embedding |-> <<3, 4>>, det_score |-> (9375 * SCALE) \div 10000],
       [bbox |-> <<200, 0, 450, 400>>, embedding |-> <<3, 4>>, det_score |-> (8750 * SCALE) \div 10000] >>

\* the last face is as similar (cosine 0.8) to the first as to the second;
\* the second has the higher quality_score
ScoreFaces ==
    << [bbox |-> <<0, 0, 100, 100>>,   embedding |-> <<4, 3>>,  det_score |-> (5 * SCALE) \div 10],
       [bbox |-> <<200, 0, 300, 100>>, embedding |-> <<4, -3>>, det_score |-> (9375 * SCALE) \div 10000],
       [bbox |-> <<400, 0, 500, 100>>, embedding |-> <<5, 0>>,  det_score |-> (5 * SCALE) \div 10] >>

\* faces without embeddings: the last box overlaps the first (IoU 70/130) less
\* than the second (IoU 80/120); the first two overlap by 50/150
OverlapFaces ==
    << [bbox |-> <<0, 0, 100, 100>>,  embedding |-> None, det_score |-> (5 * SCALE) \div 10],
       [bbox |-> <<50, 0, 150, 100>>, embedding |-> None, det_score |-> (5 * SCALE) \div 10],
       [bbox |-> <<30, 0, 130, 100>>, embedding |-> None, det_score |-> (5 * SCALE) \div 10] >>

DetectSessions == {"rank", "score", "overlap"}
InlineSessions == {"swap_rank", "swap_score", "swap_overlap"}

FacesOf(s) ==
    CASE s \in {"rank", "swap_rank"}   -> RankFaces
      [] s \in {"score", "swap_score"} -> ScoreFaces
      [] OTHER                         -> OverlapFaces

\* detect_faces, the body of "for f in faces": every face becomes a detection
DetectDets(faces) == [n \in 1..Len(faces) |-> FaceToDet(faces[n])]

InitCompare ==
    /\ JobsOff
    /\ PureOff
    /\ LockOff
    /\ SwapOff
    /\ CacheOff
    /\ session \in DetectSessions \cup InlineSessions
    /\ quality_mode = "balanced"
    /\ next_id = 0
    /\ track_embeddings = <<>>
    /\ track_bbox = <<>>
    /\ track_quality_scores = <<>>
    /\ frames_in = <<>>
    /\ out = <<>>
    /\ allocated = <<>>
    /\ seeded = {}
    /\ rerun = NoRerun

\* detect_faces: one keyframe, and the iteration of assign_track_ids_embedding on it
DetectFrameStep ==
    /\ session \in DetectSessions
    /\ Len(out) < MaxProbeFrames
    /\ \E faces \in FramesAmong(FacesOf(session), MaxDets) :
         \E st \in {AssignFrame(TrackState, DetectDets(faces), QUALITY_THRESHOLD)} :
             /\ next_id' = st.next_id
             /\ track_embeddings' = st.te
             /\ track_bbox' = st.tb
             /\ track_quality_scores' = st.tq
             /\ allocated' = st.allocated
             /\ frames_in' = Append(frames_in, faces)
             /\ out' = Append(out, st.new_frame)
    /\ UNCHANGED <<session, quality_mode, seeded, rerun, jobVars, pureVars, lockVars, swapVars, cacheVars>>

\* _do_swap: the tracker part of one iteration of the frame loop
InlineFrameStep ==
    /\ session \in InlineSessions
    /\ Len(out) < MaxProbeFrames
    /\ \E faces \in FramesAmong(FacesOf(session), MaxDets) :
         \E st \in {SwapFrame(TrackState, faces, quality_mode)} :
             /\ track_embeddings' = st.te
             /\ track_bbox' = st.tb
             /\ allocated' = st.allocated
             /\ frames_in' = Append(frames_in, faces)
             /\ out' = Append(out, st.new_frame)
    /\ UNCHANGED <<session, quality_mode, seeded, next_id, track_quality_scores, rerun,
                   jobVars, pureVars, lockVars, swapVars, cacheVars>>

NextCompare == DetectFrameStep \/ InlineFrameStep

SpecCompare == InitCompare /\ [][NextCompare]_vars

\* ---- the two trackers: the claims ----

\* the detections the tracker of the session is given for the faces of a frame
GivenDets(faces) ==
    IF session \in InlineSessions THEN BuildFrameDets(faces, quality_mode)
    ELSE DetectDets(faces)

SimThreshold ==
    IF session \in InlineSessions THEN SIM_THRESH(quality_mode) ELSE QUALITY_THRESHOLD

KnownTracks == DictKeys(track_embeddings) \cup DictKeys(track_bbox)

\* the quality score of track tid after the first k frames, by the rule of the
\* gallery update: 0 for a new track, then 0.8 * old + 0.2 * detectionQuality
\* for every detection with an embedding that joins the track
RECURSIVE TrackQualityBy(_, _)
TrackQualityBy(k, tid) ==
    IF k = 0 THEN 0
    ELSE LET dets == GivenDets(frames_in[k])
             hit  == {n \in 1..Len(dets) :
                         /\ dets[n].embedding # None
                         /\ OutId(out[k], dets[n].bbox) = tid}
         IN  IF hit = {} THEN TrackQualityBy(k - 1, tid)
             ELSE (8 * TrackQualityBy(k - 1, tid)
                   + 2 * dets[CHOOSE n \in hit : TRUE].quality_score) \div 10

\* 0.7 * maxSim + 0.3 * avgSim of a detection against the gallery of track tid
SimOf(det, tid) ==
    IF det.embedding # None /\ DictHas(track_embeddings, tid)
    THEN FinalScore([j \in 1..Len(DictGet(track_embeddings, tid)) |->
                        _cosine_sim(det.embedding, DictGet(track_embeddings, tid)[j])], 0)
    ELSE 0

\* 0.7 * maxSim + 0.3 * avgSim + 0.1 * trackQualityScore
ScoreOf(det, tid) == SimOf(det, tid) + TrackQualityBy(Len(out), tid) \div 10

IouOf(det, tid) ==
    IF DictHas(track_bbox, tid) THEN iou_box(det.bbox, DictGet(track_bbox, tid)) ELSE 0

\* IoU(box, lastBox) * (0.5 + 0.5 * sizeRatio)
OverlapOf(det, tid) ==
    IF DictHas(track_bbox, tid)
    THEN CombinedScore(iou_box(det.bbox, DictGet(track_bbox, tid)),
                       BoxArea(det.bbox), BoxArea(DictGet(track_bbox, tid)))
    ELSE 0

\* the detection matches track tid and no other: its similarity to tid exceeds
\* the threshold, and it has neither similarity to nor overlap with another track
MatchesOnly(det, tid) ==
    /\ SimOf(det, tid) > SimThreshold
    /\ \A u \in KnownTracks \ {tid} : SimOf(det, u) <= 0 /\ IouOf(det, u) = 0

MayClaim(det, tid) == SimOf(det, tid) > 0 \/ IouOf(det, tid) > 0

\* (has embedding, quality score, box area)
RankKey(det) ==
    <<IF det.embedding # None THEN 1 ELSE 0, det.quality_score, BoxArea(det.bbox)>>

DetSet(dets) == {dets[n] : n \in 1..Len(dets)}

\* C28: when two detections of one frame both match the same existing track,
\* the one ranking higher in (has embedding, quality score, box area) receives
\* that track's id and the other receives a different id, in detect_faces
\* (assign_track_ids_embedding) and in the inline tracker of _do_swap.
C28_HigherRankedTakesTrack ==
    [][Len(out') = Len(out) + 1 =>
         \A d \in DetSet(GivenDets(frames_in'[Len(frames_in')])) :
           \A e \in DetSet(GivenDets(frames_in'[Len(frames_in')])) \ {d} :
             \A tid \in KnownTracks :
               ( /\ MatchesOnly(d, tid)
                 /\ MatchesOnly(e, tid)
                 /\ KeyGreater(RankKey(d), RankKey(e))
                 /\ \A f \in DetSet(GivenDets(frames_in'[Len(frames_in')])) \ {d, e} :
                        ~MayClaim(f, tid) )
               => /\ OutId(out'[Len(out')], d.bbox) = tid
                  /\ OutId(out'[Len(out')], e.bbox) # tid]_vars

\* C29: a detection with an embedding receives the id of the track whose score
\* 0.7 * maxSim + 0.3 * avgSim + 0.1 * trackQualityScore exceeds the similarity
\* threshold and is the highest, when no other detection of the frame receives
\* that id, in detect_faces and in the inline tracker of _do_swap.
C29_HighestScoreTakesDetection ==
    [][Len(out') = Len(out) + 1 =>
         \A det \in Matchable(GivenDets(frames_in'[Len(frames_in')])) :
           \A tid \in DictKeys(track_embeddings) :
             ( /\ ScoreOf(det, tid) > SimThreshold
               /\ \A u \in DictKeys(track_embeddings) \ {tid} :
                      ScoreOf(det, u) < ScoreOf(det, tid)
               /\ Unclaimed(out'[Len(out')], det, tid) )
             => OutId(out'[Len(out')], det.bbox) = tid]_vars

\* C30: a detection that embedding matching gives no track (it has no
\* embedding, or no track scores above the similarity threshold) receives the
\* id of the track whose score IoU * (0.5 + 0.5 * sizeRatio) exceeds the IoU
\* threshold and is the highest, when no other detection of the frame receives
\* that id, in detect_faces and in the inline tracker of _do_swap.
C30_BestOverlapTakesDetection ==
    [][Len(out') = Len(out) + 1 =>
         \A det \in DetSet(GivenDets(frames_in'[Len(frames_in')])) :
           (\A t \in DictKeys(track_embeddings) : ScoreOf(det, t) <= SimThreshold)
             => \A tid \in DictKeys(track_bbox) :
                  ( /\ OverlapOf(det, tid) > IOU_THRESH
                    /\ \A u \in DictKeys(track_bbox) \ {tid} :
                           OverlapOf(det, u) < OverlapOf(det, tid)
                    /\ Unclaimed(out'[Len(out')], det, tid) )
                  => OutId(out'[Len(out')], det.bbox) = tid]_vars

------------------------------------------------------------------------------
\* ---- long sessions of one face: the galleries fill up ----

MaxGalleryFrames == 10

\* ten looks of one face: embeddings of norm 25, any two of them with a cosine
\* of at most 0.8432
Looks ==
    << <<25, 0>>, <<20, 15>>, <<7, 24>>, <<-7, 24>>, <<-20, 15>>,
       <<-25, 0>>, <<-20, -15>>, <<-7, -24>>, <<7, -24>>, <<20, -15>> >>

\* the face stays where it is; the detector is sure of it
GalleryFace(look) ==
    [bbox |-> <<0, 0, 100, 100>>, embedding |-> look, det_score |-> (9 * SCALE) \div 10]

\* the face of frame n + 1 shows a new look or the look of the first frame
GalleryFaces(n) == {<<GalleryFace(Looks[1])>>, <<GalleryFace(Looks[(n % Len(Looks)) + 1])>>}

GallerySessions == {"gallery", "swap_gallery"}

InitGallery ==
    /\ JobsOff
    /\ PureOff
    /\ LockOff
    /\ SwapOff
    /\ CacheOff
    /\ session \in GallerySessions
    /\ quality_mode \in IF session = "swap_gallery" THEN QualityModes ELSE {"balanced"}
    /\ next_id = 0
    /\ track_bbox = <<>>
    /\ track_quality_scores = <<>>
    /\ frames_in = <<>>
    /\ out = <<>>
    /\ allocated = <<>>
    /\ rerun = NoRerun
    \* _do_swap lines 939-943: a target embedding seeds track target_track_id
    /\ seeded \in IF session = "swap_gallery" THEN {{}} \cup {{t} : t \in TargetTrackIds}
                  ELSE {{}}
    /\ track_embeddings =
         IF seeded = {} THEN <<>>
         ELSE <<[k |-> CHOOSE t \in seeded : TRUE,
                 v |-> <<normalize_face_embedding(SeedEmbedding)>>]>>

\* detect_faces: one keyframe, and the iteration of assign_track_ids_embedding on it
GalleryAssignStep ==
    /\ session = "gallery"
    /\ Len(out) < MaxGalleryFrames
    /\ \E faces \in GalleryFaces(Len(out)) :
         \E st \in {AssignFrame(TrackState, DetectDets(faces), QUALITY_THRESHOLD)} :
             /\ next_id' = st.next_id
             /\ track_embeddings' = st.te
             /\ track_bbox' = st.tb
             /\ track_quality_scores' = st.tq
             /\ allocated' = st.allocated
             /\ frames_in' = Append(frames_in, faces)
             /\ out' = Append(out, st.new_frame)
    /\ UNCHANGED <<session, quality_mode, seeded, rerun, jobVars, pureVars, lockVars, swapVars, cacheVars>>

\* _do_swap: the tracker part of one iteration of the frame loop
GallerySwapStep ==
    /\ session = "swap_gallery"
    /\ Len(out) < MaxGalleryFrames
    /\ \E faces \in GalleryFaces(Len(out)) :
         \E st \in {SwapFrame(TrackState, faces, quality_mode)} :
             /\ track_embeddings' = st.te
             /\ track_bbox' = st.tb
             /\ allocated' = st.allocated
             /\ frames_in' = Append(frames_in, faces)
             /\ out' = Append(out, st.new_frame)
    /\ UNCHANGED <<session, quality_mode, seeded, next_id, track_quality_scores, rerun,
                   jobVars, pureVars, lockVars, swapVars, cacheVars>>

NextGallery == GalleryAssignStep \/ GallerySwapStep

SpecGallery == InitGallery /\ [][NextGallery]_vars

\* ---- the galleries: the claims ----

\* the stored embeddings of track tid in the galleries te (none when unknown)
StoredOf(te, tid) == DictGetOr(te, tid, <<>>)

IsPrefix(s, t) == Len(s) <= Len(t) /\ \A i \in 1..Len(s) : s[i] = t[i]

\* C31: in every reachable state of a tracking session each track's list of
\* stored embeddings has at most 8 entries (a track seeded with the target
\* embedding in _do_swap included), and entries once stored are never removed
\* or reordered: the list of a track before a step is a prefix of its list after.
C31_GalleriesBoundedAppendOnly ==
    /\ [](\A tid \in DictKeys(track_embeddings) : Len(StoredOf(track_embeddings, tid)) <= 8)
    /\ [][\A tid \in DictKeys(track_embeddings) :
              IsPrefix(StoredOf(track_embeddings, tid), StoredOf(track_embeddings', tid))]_vars

\* a seeded track of _do_swap is full after seven frames, and a further frame
\* brought the face again
C31_Witness ==
    /\ session = "swap_gallery"
    /\ \E tid \in seeded :
         /\ Len(StoredOf(track_embeddings, tid)) = 8
         /\ Len(out) > 8
         /\ OutId(out[Len(out)], <<0, 0, 100, 100>>) = tid

\* C32: an embedding joins a track's gallery only if its cosine similarity to
\* every embedding already stored for the track is below the novelty
\* threshold, so in every reachable state any two embeddings stored for one
\* track have a similarity of at most 0.9, in assign_track_ids_embedding and
\* in the inline tracker of _do_swap.
C32_StoredEmbeddingsPairwiseNovel ==
    \A tid \in DictKeys(track_embeddings) :
      \A i \in 1..Len(StoredOf(track_embeddings, tid)) :
        \A j \in 1..(i - 1) :
          _cosine_sim(StoredOf(track_embeddings, tid)[i],
                      StoredOf(track_embeddings, tid)[j]) <= (9 * SCALE) \div 10

\* ---- the quality score of a track ----

\* the detections of the frame just processed that were given a track id
Tracked(frame_dets) ==
    {frame_dets[n] : n \in {m \in 1..Len(frame_dets) : frame_dets[m].bbox # NoKey}}

\* 0.8 * old + 0.2 * detectionQuality, a track just created counting as 0.0
Ema(tq0, tid, quality_score) == (8 * DictGetOr(tq0, tid, 0) + 2 * quality_score) \div 10

\* C33 as stated: after every detection that is matched to a track or creates
\* one, with or without an embedding, the quality score of the track is
\* 0.8 * its previous value + 0.2 * the quality score of the detection.
C33_Original ==
    [][(session = "assign" /\ Len(out') = Len(out) + 1) =>
         \A det \in Tracked(frames_in'[Len(frames_in')]) :
           DictGetOr(track_quality_scores', OutId(out'[Len(out')], det.bbox), 0)
             = Ema(track_quality_scores, OutId(out'[Len(out')], det.bbox),
                   det.quality_score)]_vars

\* C33: after every detection with an embedding that is matched to a track or
\* creates one, the quality score of the track is 0.8 * its previous value
\* (0.0 for a track just created) + 0.2 * the quality score of the detection; a
\* detection without an embedding leaves the quality score of its track as it
\* was (0.0 for a track it creates).
C33_QualityAveragedOverEmbeddings ==
    [][(session = "assign" /\ Len(out') = Len(out) + 1) =>
         \A det \in Tracked(frames_in'[Len(frames_in')]) :
           DictGetOr(track_quality_scores', OutId(out'[Len(out')], det.bbox), 0)
             = IF det.embedding # None
               THEN Ema(track_quality_scores, OutId(out'[Len(out')], det.bbox),
                        det.quality_score)
               ELSE DictGetOr(track_quality_scores, OutId(out'[Len(out')], det.bbox), 0)]_vars

\* a track of quality 0.1 was matched by a detection of quality 0.5 with an
\* embedding, and a detection without an embedding started a track of quality 0
C33_Witness ==
    /\ session = "assign"
    /\ Len(out) = 2
    /\ \E d \in Tracked(frames_in[1]) :
         /\ d.embedding # None
         /\ d \in Tracked(frames_in[2])
         /\ OutId(out[1], d.bbox) = OutId(out[2], d.bbox)
         /\ DictGet(track_quality_scores, OutId(out[2], d.bbox))
              = (8 * ((2 * d.quality_score) \div 10) + 2 * d.quality_score) \div 10
    /\ \E e \in Tracked(frames_in[2]) :
         /\ e.embedding = None
         /\ \A n \in 1..Len(out[1]) : out[1][n].trackId # OutId(out[2], e.bbox)
         /\ DictGet(track_quality_scores, OutId(out[2], e.bbox)) = 0

\* ---- the representative embeddings ----

\* the frames among the first n in which a detection with an embedding was
\* given the id tid by the call that returned o
FramesStoring(o, tid, n) ==
    {k \in 1..n : \E det \in Tracked(frames_in[k]) :
                     det.embedding # None /\ OutId(o[k], det.bbox) = tid}

\* the embedding, as the tracker stores it, of the detection of frame k that
\* was given the id tid
StoredAt(o, tid, k) ==
    normalize_face_embedding(
        (CHOOSE det \in Tracked(frames_in[k]) :
             det.embedding # None /\ OutId(o[k], det.bbox) = tid).embedding)

FirstOf(K) == CHOOSE k \in K : \A j \in K : k <= j

\* the ids given in the output o
IdsIn(o) == UNION {{o[k][n].trackId : n \in 1..Len(o[k])} : k \in 1..Len(o)}

\* what assign_track_ids_embedding returns when called with the frames
ReturnedOn(frames) == AssignRun(AssignLocals(TrackState), frames, 1, <<>>)

------------------------------------------------------------------------------
\* ---- the quality mode of a request and the similarity threshold ----
\*
\* DetectFacesRequest and SwapRequest both carry quality_mode; detect_faces calls
\* assign_track_ids_embedding(raw_per_frame), _do_swap sets SIM_THRESH by mode.

\* three faces apart from each other: the cosine of the first and the second
\* is 0.5376, of the first and the third 0.6277, of the second and the third 0.9938
ModeFaces ==
    << [bbox |-> <<0, 0, 100, 100>>,   embedding |-> <<24, 7>>, det_score |-> (5 * SCALE) \div 10],
       [bbox |-> <<200, 0, 300, 100>>, embedding |-> <<7, 24>>, det_score |-> (5 * SCALE) \div 10],
       [bbox |-> <<400, 0, 500, 100>>, embedding |-> <<5, 12>>, det_score |-> (5 * SCALE) \div 10] >>

ModeSessions == {"preview", "process"}

InitModes ==
    /\ JobsOff
    /\ PureOff
    /\ LockOff
    /\ SwapOff
    /\ CacheOff
    /\ session \in ModeSessions
    /\ quality_mode \in QualityModes
    /\ next_id = 0
    /\ track_embeddings = <<>>
    /\ track_bbox = <<>>
    /\ track_quality_scores = <<>>
    /\ frames_in = <<>>
    /\ out = <<>>
    /\ allocated = <<>>
    /\ seeded = {}
    /\ rerun = NoRerun

\* detect_faces: one keyframe with at most one face, and the iteration of
\* assign_track_ids_embedding(raw_per_frame) on it: sim_thresh keeps its default
PreviewFrameStep ==
    /\ session = "preview"
    /\ Len(out) < MaxProbeFrames
    /\ \E faces \in FramesAmong(ModeFaces, 1) :
         \E st \in {AssignFrame(TrackState, DetectDets(faces), QUALITY_THRESHOLD)} :
             /\ next_id' = st.next_id
             /\ track_embeddings' = st.te
             /\ track_bbox' = st.tb
             /\ track_quality_scores' = st.tq
             /\ allocated' = st.allocated
             /\ frames_in' = Append(frames_in, faces)
             /\ out' = Append(out, st.new_frame)
    /\ UNCHANGED <<session, quality_mode, seeded, rerun, jobVars, pureVars, lockVars, swapVars, cacheVars>>

\* _do_swap: the tracker part of one iteration of the frame loop
ProcessFrameStep ==
    /\ session = "process"
    /\ Len(out) < MaxProbeFrames
    /\ \E faces \in FramesAmong(ModeFaces, 1) :
         \E st \in {SwapFrame(TrackState, faces, quality_mode)} :
             /\ track_embeddings' = st.te
             /\ track_bbox' = st.tb
             /\ allocated' = st.allocated
             /\ frames_in' = Append(frames_in, faces)
             /\ out' = Append(out, st.new_frame)
    /\ UNCHANGED <<session, quality_mode, seeded, next_id, track_quality_scores, rerun,
                   jobVars, pureVars, lockVars, swapVars, cacheVars>>

NextModes == PreviewFrameStep \/ ProcessFrameStep

SpecModes == InitModes /\ [][NextModes]_vars

\* ---- the threshold: the claim ----

\* 0.45 for fast, 0.60 for balanced, 0.65 for best
ModeThreshold(mode) ==
    CASE mode = "fast" -> (45 * SCALE) \div 100
      [] mode = "best" -> (65 * SCALE) \div 100
      [] OTHER         -> (60 * SCALE) \div 100

\* the detections the pass of the session tracks for the faces of a frame
PassDets(faces) ==
    IF session = "process" THEN BuildFrameDets(faces, quality_mode) ELSE DetectDets(faces)

\* the score of a detection against track tid: 0.7 * maxSim + 0.3 * avgSim, and
\* in assign_track_ids_embedding + 0.1 * the quality score of the track
PassScore(det, tid) ==
    FinalScore([j \in 1..Len(StoredOf(track_embeddings, tid)) |->
                   _cosine_sim(det.embedding, StoredOf(track_embeddings, tid)[j])],
               IF session = "process" THEN 0
               ELSE DictGetOr(track_quality_scores, tid, 0) \div 10)

\* C35: the similarity threshold the tracker applies is selected by the quality
\* mode of the request, 0.45 for fast, 0.60 for balanced and 0.65 for best, in
\* the preview pass (detect_faces) and in the processing pass (_do_swap): a
\* face whose score against some track exceeds the threshold of the mode is
\* given the id of an existing track, and a face whose score exceeds it for no
\* track, and whose box overlaps no track, is given a new id.
C35_ThresholdFollowsQualityMode ==
    [][Len(out') = Len(out) + 1 =>
         \A det \in DetSet(PassDets(frames_in'[Len(frames_in')])) :
            /\ (\E tid \in DictKeys(track_embeddings) :
                    PassScore(det, tid) > ModeThreshold(quality_mode))
                 => OutId(out'[Len(out')], det.bbox) \in DictKeys(track_embeddings)
            /\ ( /\ \A tid \in DictKeys(track_embeddings) :
                       PassScore(det, tid) <= ModeThreshold(quality_mode)
                 /\ \A tid \in DictKeys(track_bbox) :
                       iou_box(det.bbox, DictGet(track_bbox, tid)) = 0 )
                 => OutId(out'[Len(out')], det.bbox) \notin KnownTracks]_vars

------------------------------------------------------------------------------
\* ---- the range of the progress ----

\* C36: in every reachable state the progress of every job record lies in
\* [0, 100], for every total frame count the video source reports and every
\* number of frames the worker reads.
C36_ProgressWithinRange ==
    \A id \in DOMAIN _jobs : 0 <= _jobs[id].progress /\ _jobs[id].progress <= Pct(100)

------------------------------------------------------------------------------
\* ---- exceptions inside the frame loop of _do_swap ----
\*
\* An exception of swapper.get or soften_swap_edges is caught next to the call
\* (lines 1095-1098, 1110-1113): the frame is written unmodified, which
\* MorphFrame counts as a processed frame.  Any other exception inside the
\* try of the iteration (the detector, the target detection, the tracker, the
\* progress write) arrives at "except Exception" (lines 1135-1141).

\* C37: an exception raised while _do_swap processes a single frame never
\* moves the job to failed: the unmodified frame is kept as the output for
\* that frame index (the frame leaves its file, as every frame before did),
\* and the loop goes on with the next frame.
C37_FrameExceptionKeepsFrame ==
    [][\A i \in 1..Len(workers) :
          (service = "morph" /\ Raised(i, {"absorbed"}) /\ ~workers[i].gap) =>
              /\ _jobs'[workers[i].job_id].status # "failed"
              /\ workers'[i].pc = "loop"
              /\ ~workers'[i].gap]_vars

------------------------------------------------------------------------------
\* ---- the frame loop of _do_swap: the detection that is swapped ----

\* TARGET_SIM_THRESH by quality mode (lines 947-955)
TARGET_SIM_THRESH(mode) ==
    IF mode = "best" THEN (45 * SCALE) \div 100
    ELSE IF mode = "fast" THEN (35 * SCALE) \div 100
    ELSE (38 * SCALE) \div 100

\* weighted_sim = sim * (0.7 + 0.3 * min(1.0, det["quality_score"]))
WeightedSim(det, target_embedding) ==
    (_cosine_sim(det.embedding, target_embedding)
       * ((7 * SCALE) \div 10 + (3 * Min(SCALE, det.quality_score)) \div 10)) \div SCALE

NoTarget == [found |-> FALSE, n |-> 0, score |-> 0]

\* for det in frame_dets: ... if target_score is None or weighted_sim > target_score
RECURSIVE TargetLoop(_, _, _, _)
TargetLoop(n, frame_dets, target_embedding, best) ==
    IF n > Len(frame_dets) THEN best
    ELSE IF frame_dets[n].embedding = None
         THEN TargetLoop(n + 1, frame_dets, target_embedding, best)
    ELSE TargetLoop(n + 1, frame_dets, target_embedding,
                    IF ~best.found \/ WeightedSim(frame_dets[n], target_embedding) > best.score
                    THEN [found |-> TRUE, n |-> n,
                          score |-> WeightedSim(frame_dets[n], target_embedding)]
                    ELSE best)

\* (bug variant: the best detection is the target whatever its score)
TargetTooWeakNever(best, mode) == ~best.found

\* if target_score is None or target_score < TARGET_SIM_THRESH: target_det = None
TargetTooWeak(best, mode) == ~best.found \/ best.score < TARGET_SIM_THRESH(mode)

\* lines 1013-1030: the index in frame_dets of target_det, 0 for None
TargetDet(frame_dets, target_embedding, mode) ==
    IF target_embedding = None THEN 0
    ELSE IF TargetTooWeak(TargetLoop(1, frame_dets, target_embedding, NoTarget), mode) THEN 0
    ELSE TargetLoop(1, frame_dets, target_embedding, NoTarget).n

\* for det in frame_dets: if det["trackId"] == target_track_id: ...; break
RECURSIVE TrackFallback(_, _, _, _)
TrackFallback(n, frame_dets, new_frame, tid) ==
    IF n > Len(frame_dets) THEN 0
    ELSE IF OutId(new_frame, frame_dets[n].bbox) = tid THEN n
    ELSE TrackFallback(n + 1, frame_dets, new_frame, tid)

\* lines 1082-1114: the boxes of the detections swapper.get is called for
SwappedBoxes(frame_dets, new_frame, target_det, tid) ==
    IF target_det # 0 THEN <<frame_dets[target_det].bbox>>
    ELSE IF TrackFallback(1, frame_dets, new_frame, tid) # 0
         THEN <<frame_dets[TrackFallback(1, frame_dets, new_frame, tid)].bbox>>
         ELSE <<>>

\* four faces apart from each other, whose cosine with the target embedding
\* (1, 0) is 0.96, 0.28, 0.6 and 0.42 and whose quality scores are 1.26, 0.7,
\* 0.7 and 0.7, and a face without an embedding that overlaps the first
TargetFaces ==
    << [bbox |-> <<0, 0, 100, 100>>,   embedding |-> <<24, 7>>,  det_score |-> (9 * SCALE) \div 10],
       [bbox |-> <<200, 0, 300, 100>>, embedding |-> <<7, 24>>,  det_score |-> (5 * SCALE) \div 10],
       [bbox |-> <<400, 0, 500, 100>>, embedding |-> <<3, 4>>,   det_score |-> (5 * SCALE) \div 10],
       [bbox |-> <<600, 0, 700, 100>>, embedding |-> <<36, 77>>, det_score |-> (5 * SCALE) \div 10],
       [bbox |-> <<10, 0, 110, 100>>,  embedding |-> None,       det_score |-> (5 * SCALE) \div 10] >>

\* target_embedding of the request: seeded holds the track it was stored for
TargetEmbedding == IF seeded = {} THEN None ELSE normalize_face_embedding(SeedEmbedding)

InitSwap ==
    /\ JobsOff
    /\ PureOff
    /\ LockOff
    /\ CacheOff
    /\ session = "swap_target"
    /\ quality_mode \in QualityModes
    /\ target_track_id \in TargetTrackIds
    /\ applied = <<>>
    /\ next_id = 0
    /\ track_bbox = <<>>
    /\ track_quality_scores = <<>>
    /\ frames_in = <<>>
    /\ out = <<>>
    /\ allocated = <<>>
    /\ rerun = NoRerun
    \* lines 939-943: a target embedding seeds track target_track_id
    /\ seeded \in {{}, {target_track_id}}
    /\ track_embeddings =
         IF seeded = {} THEN <<>>
         ELSE <<[k |-> target_track_id, v |-> <<normalize_face_embedding(SeedEmbedding)>>]>>

\* one iteration of the frame loop in which the detector returned faces: the
\* target detection, the tracker, and the swap, whose exception is caught
\* beside the call and leaves the frame unmodified
SwapLoopStep ==
    /\ session = "swap_target"
    /\ Len(out) < MaxFrames
    /\ \E faces \in FramesAmong(TargetFaces, MaxDets), swapper_raises \in BOOLEAN :
         \E st \in {SwapFrame(TrackState, faces, quality_mode)},
            frame_dets \in {BuildFrameDets(faces, quality_mode)} :
           \E to \in {SwappedBoxes(frame_dets, st.new_frame,
                                   TargetDet(frame_dets, TargetEmbedding, quality_mode),
                                   target_track_id)} :
             /\ track_embeddings' = st.te
             /\ track_bbox' = st.tb
             /\ allocated' = st.allocated
             /\ frames_in' = Append(frames_in, faces)
             /\ out' = Append(out, st.new_frame)
             /\ applied' = Append(applied,
                                  [to   |-> to,
                                   file |-> IF to = <<>> \/ swapper_raises
                                            THEN "unmodified" ELSE "swapped"])
    /\ UNCHANGED <<session, quality_mode, seeded, next_id, track_quality_scores, rerun,
                   target_track_id, jobVars, pureVars, lockVars, cacheVars>>

\* one iteration in which face_app.get raises: "except Exception" counts the
\* frame and writes no file
SwapLoopDetectorRaises ==
    /\ session = "swap_target"
    /\ Len(out) < MaxFrames
    /\ frames_in' = Append(frames_in, <<>>)
    /\ out' = Append(out, <<>>)
    /\ applied' = Append(applied, [to |-> <<>>, file |-> "none"])
    /\ UNCHANGED <<session, quality_mode, seeded, next_id, track_embeddings, track_bbox,
                   track_quality_scores, allocated, rerun,
                   target_track_id, jobVars, pureVars, lockVars, cacheVars>>

NextSwap == SwapLoopStep \/ SwapLoopDetectorRaises

SpecSwap == InitSwap /\ [][NextSwap]_vars

\* ---- the swapped detection: the claim ----

\* sim * (0.7 + 0.3 * min(1, quality)) against the target embedding of the request
Weighted(det) ==
    (_cosine_sim(det.embedding, normalize_face_embedding(SeedEmbedding))
       * ((7 * SCALE) \div 10 + (3 * Min(SCALE, det.quality_score)) \div 10)) \div SCALE

\* the detections of the frame that can be the target by their embedding
Candidates(dets) ==
    {d \in DetSet(dets) :
        d.embedding # None /\ Weighted(d) >= TARGET_SIM_THRESH(quality_mode)}

\* C38: in each frame processed by _do_swap the swapper is applied to at most
\* one detection: when a target embedding was supplied and the weighted
\* similarity of some detection to it reaches the target threshold, to the
\* detection with the highest weighted similarity; otherwise to the detection
\* whose trackId equals target_face_track_id, and to none when no detection
\* has that id.
C38_SwapsTargetOrTrackedDetection ==
    [][(Len(applied') = Len(applied) + 1 /\ applied'[Len(applied')].file # "none") =>
         /\ Len(applied'[Len(applied')].to) <= 1
         /\ IF seeded # {}
               /\ Candidates(BuildFrameDets(frames_in'[Len(frames_in')], quality_mode)) # {}
            THEN \E d \in Candidates(BuildFrameDets(frames_in'[Len(frames_in')], quality_mode)) :
                    /\ applied'[Len(applied')].to = <<d.bbox>>
                    /\ \A e \in Candidates(BuildFrameDets(frames_in'[Len(frames_in')],
                                                          quality_mode)) :
                           Weighted(e) <= Weighted(d)
            ELSE \A d \in DetSet(BuildFrameDets(frames_in'[Len(frames_in')], quality_mode)) :
                    IF \E e \in DetSet(BuildFrameDets(frames_in'[Len(frames_in')],
                                                      quality_mode)) :
                          OutId(out'[Len(out')], e.bbox) = target_track_id
                    THEN (applied'[Len(applied')].to = <<d.bbox>>)
                           <=> (OutId(out'[Len(out')], d.bbox) = target_track_id)
                    ELSE applied'[Len(applied')].to = <<>>]_vars

\* the detection most similar to the target embedding was swapped though
\* another detection of the frame has the target track id
C38_Witness ==
    /\ session = "swap_target"
    /\ seeded # {}
    /\ Len(applied) = 2
    /\ Len(applied[2].to) = 1
    /\ OutId(out[2], applied[2].to[1]) # target_track_id
    /\ \E e \in DetSet(BuildFrameDets(frames_in[2], quality_mode)) :
          OutId(out[2], e.bbox) = target_track_id

------------------------------------------------------------------------------
\* ---- the cached models: _apply_use_cuda and the getters ----
\*
\* detect_faces and _do_swap are plain functions: the server runs each request
\* and each background task on a thread of its pool.  A getter reads its
\* global, loads the model when it read None, assigns it and returns the
\* global; nothing is locked.

MaxCallers == 2

\* req.use_cuda: None, True or False
UseCuda == {"None", "True", "False"}

\* new_prefer_cpu = not use_cuda
PreferCpu(use_cuda) == IF use_cuda = "True" THEN "cuda" ELSE "cpu"

\* the detector the request asks for (lines 747-750, 849-854)
Detector(hd) == IF hd THEN "face_app_hd" ELSE "face_app"

InitCache ==
    /\ JobsOff
    /\ TrackOff
    /\ PureOff
    /\ LockOff
    /\ SwapOff
    /\ _prefer_cpu_override = "None"
    /\ cached = [m \in Models |-> FALSE]
    /\ loads = [m \in Models |-> 0]
    /\ callers = <<>>

CacheFrame == UNCHANGED <<trackVars, jobVars, pureVars, lockVars, swapVars>>

\* a request arrives: detect_faces, or _do_swap as a background task
CallerStarts ==
    /\ Len(callers) < MaxCallers
    /\ \E kind \in {"detect", "swap"}, use_cuda \in UseCuda, hd \in BOOLEAN :
         callers' = Append(callers, [kind |-> kind, use_cuda |-> use_cuda,
                                     getter |-> Detector(hd), pc |-> "apply"])
    /\ UNCHANGED <<_prefer_cpu_override, cached, loads>>
    /\ CacheFrame

\* _apply_use_cuda(req.use_cuda): a changed preference clears the cached models
ApplyUseCuda(c) ==
    /\ callers[c].pc = "apply"
    /\ callers' = [callers EXCEPT ![c].pc = "check"]
    /\ IF callers[c].use_cuda # "None"
          /\ _prefer_cpu_override # PreferCpu(callers[c].use_cuda)
       THEN /\ _prefer_cpu_override' = PreferCpu(callers[c].use_cuda)
            /\ cached' = [m \in Models |-> FALSE]
            /\ loads' = [m \in Models |-> 0]
       ELSE UNCHANGED <<_prefer_cpu_override, cached, loads>>
    /\ CacheFrame

\* the getter reads its global: if _face_app is None
GetterChecks(c) ==
    /\ callers[c].pc = "check"
    /\ callers' = [callers EXCEPT ![c].pc = IF cached[callers[c].getter]
                                            THEN "return" ELSE "load"]
    /\ UNCHANGED <<_prefer_cpu_override, cached, loads>>
    /\ CacheFrame

\* the model is loaded and assigned to the global
GetterLoads(c) ==
    /\ callers[c].pc = "load"
    /\ callers' = [callers EXCEPT ![c].pc = "return"]
    /\ cached' = [cached EXCEPT ![callers[c].getter] = TRUE]
    /\ loads' = [loads EXCEPT ![callers[c].getter] = @ + 1]
    /\ UNCHANGED _prefer_cpu_override
    /\ CacheFrame

\* loading raises: the getter raises RuntimeError and the request or job ends
GetterRaises(c) ==
    /\ callers[c].pc = "load"
    /\ callers' = [callers EXCEPT ![c].pc = "done"]
    /\ UNCHANGED <<_prefer_cpu_override, cached, loads>>
    /\ CacheFrame

\* return _face_app; _do_swap goes on to get_swapper()
GetterReturns(c) ==
    /\ callers[c].pc = "return"
    /\ callers' = [callers EXCEPT
                     ![c].pc = IF callers[c].kind = "swap" /\ callers[c].getter # "swapper"
                               THEN "check" ELSE "done",
                     ![c].getter = IF callers[c].kind = "swap" THEN "swapper" ELSE @]
    /\ UNCHANGED <<_prefer_cpu_override, cached, loads>>
    /\ CacheFrame

NextCache ==
    \/ CallerStarts
    \/ \E c \in 1..Len(callers) :
          \/ ApplyUseCuda(c)
          \/ GetterChecks(c)
          \/ GetterLoads(c)
          \/ GetterRaises(c)
          \/ GetterReturns(c)

SpecCache == InitCache /\ [][NextCache]_vars

\* C39: each cached model (get_face_app, get_face_app_hd, get_swapper) is
\* loaded at most once between two changes of the CPU/CUDA preference made
\* through _apply_use_cuda, also when several swap workers and detect
\* requests call the getters at the same time.
C39_ModelLoadedOncePerPreference ==
    \A m \in Models : loads[m] <= 1

------------------------------------------------------------------------------
\* ---- the inline tracker against assign_track_ids_embedding, no embeddings ----

InitAgree ==
    /\ JobsOff
    /\ PureOff
    /\ LockOff
    /\ SwapOff
    /\ CacheOff
    /\ session = "swap_overlap"
    /\ quality_mode \in QualityModes
    /\ next_id = 0
    /\ track_embeddings = <<>>
    /\ track_bbox = <<>>
    /\ track_quality_scores = <<>>
    /\ frames_in = <<>>
    /\ out = <<>>
    /\ allocated = <<>>
    /\ seeded = {}
    /\ rerun = NoRerun

\* the detections _do_swap tracked so far, frame by frame
TrackedFrames == [k \in 1..Len(frames_in) |-> BuildFrameDets(frames_in[k], quality_mode)]

\* assign_track_ids_embedding is called with the detections _do_swap tracked
AssignSameStep ==
    /\ session = "swap_overlap"
    /\ Len(frames_in) > 0
    /\ rerun' = AssignRun(AssignLocals(TrackState), TrackedFrames, 1, <<>>)
    /\ UNCHANGED <<session, quality_mode, next_id, track_embeddings, track_bbox,
                   track_quality_scores, frames_in, out, allocated, seeded,
                   jobVars, pureVars, lockVars, swapVars, cacheVars>>

NextAgree == InlineFrameStep \/ AssignSameStep

SpecAgree == InitAgree /\ [][NextAgree]_vars

\* C40: on every detection sequence in which no detection has an embedding
\* and no target embedding is seeded, the inline tracker of _do_swap assigns
\* the same track ids as assign_track_ids_embedding run on the same sequence.
C40_InlineAgreesWithAssign ==
    (rerun # NoRerun /\ seeded = {}
       /\ \A k \in 1..Len(frames_in) : \A n \in 1..Len(frames_in[k]) :
             frames_in[k][n].embedding = None)
      => \A k \in 1..Len(rerun.out) :
           \A det \in DetSet(TrackedFrames[k]) :
              OutId(out[k], det.bbox) = OutId(rerun.out[k], det.bbox)
====
